---- MODULE Spec2Model ----
(***************************************************************************)
(* Model of the pipeline factory, its watcher task, the descriptor         *)
(* range-merge containers of CombinedImageSamplerUpdater and the render    *)
(* pass attachment bookkeeping of the linuxviewer Vulkan engine.           *)
(*                                                                         *)
(* Sequences are 1-based here; the C++ containers are 0-based.  The        *)
(* MultiLoop counter "current loop" is therefore k+1 where the source has  *)
(* k, and 0 stands for the source's "finished" position (-1).              *)
(***************************************************************************)
EXTENDS Integers, Sequences, FiniteSets, TLC

\* ------------------------------------------------------------------------
\* Bounds of the model.
MaxChars == 2        \* at most this many CharacteristicRange objects are added
MaxSize == 2         \* iend() - ibegin() of a characteristic is in 1..MaxSize
MaxBegin == 0        \* ibegin() of a characteristic is in 0..MaxBegin
MaxPipelines == 8    \* characteristics are added while at most this many pipelines result
NumIds == 2          \* FactoryCharacteristicIds 1..NumIds
MaxFill == 2         \* fill indices 0..MaxFill-1
NumTargets == 2      \* descriptor set/binding pairs 1..NumTargets
NumTextures == 2     \* textures 1..NumTextures
MaxUpdates == 4      \* at most this many updates are sent to the updater
NumPasses == 2       \* render passes 1..NumPasses
NumAttachments == 2  \* attachments 1..NumAttachments
MaxOps == 3          \* at most this many render graph operations are applied
MaxWindowOps == 4    \* at most this many calls of Application::add and Application::remove
MaxFlatOps == 4      \* at most this many calls of add and get_pipeline_color_blend_attachment_states
NumImages == 3       \* memory::Image objects 1..NumImages
NumHandles == 2      \* vk::Image handles 1..NumHandles
MaxEdges == 4        \* at most this many edges between the render passes of a traversed graph
NumCaches == 2       \* PipelineCache tasks 1..NumCaches

\* ------------------------------------------------------------------------
\* Variables of the PipelineFactory task and its PipelineFactoryWatcher.
VARIABLES
  m_characteristics,     \* PipelineFactory::m_characteristics, [begin, end] each
  f_state,               \* run state of the factory task
  f_run,                 \* "runnable", "waiting", "finished" or "assert_failed"
  f_wait,                \* condition the factory waits on ("none" if not idle)
  f_skip_wait,           \* conditions signalled while the factory was not idle
  f_pc,                  \* position inside the current state of the factory
  f_turns,               \* number of completed execution turns in generate
  m_range_counters,      \* MultiLoop: [loops, cl, c]
  m_graphics_pipelines,  \* per pipeline::Index: number of pipelines stored
  created,               \* history: <<counters, index>> per created pipeline
  notified,              \* history: number of have_new_pipeline calls
  signalled,             \* history: conditions that the factory was signalled with
  w_state,               \* run state of the watcher ("none" before creation)
  w_run,                 \* "runnable", "waiting", "finished" ("none" before)
  w_skip_wait,           \* need_action signalled while the watcher was not idle
  w_pc,                  \* position inside PipelineFactoryWatcher_need_action
  w_handle,              \* local pipeline_handle of the watcher loop
  m_new_pipelines,       \* the mutex guarded deque of the watcher
  m_parent_finished,     \* atomic flag of the watcher
  forwarded              \* history: handles passed to owning_window()->new_pipeline

fvars == <<m_characteristics, f_state, f_run, f_wait, f_skip_wait, f_pc, f_turns,
           m_range_counters, m_graphics_pipelines, created, notified, signalled>>
wvars == <<w_state, w_run, w_skip_wait, w_pc, w_handle, m_new_pipelines,
           m_parent_finished, forwarded>>

\* Variables of CombinedImageSamplerUpdater.
VARIABLES
  m_key_to_descriptor,   \* m_factory_characteristic_key_to_descriptor
  m_key_to_texture,      \* m_factory_characteristic_key_to_texture
  m_owning_window,       \* the window m_owning_window points to, 0 while it is null
  bound,                 \* per descriptor target: texture of the last descriptor-set update
  delivered,             \* history: per id and fill_index the target of the DescriptorUpdateInfo
  painted,               \* history: per id and fill_index the most recent texture requested
  last_update,           \* history: the update processed last
  n_updates,             \* history: number of updates processed
  end_dereferenced       \* TRUE once end() of the descriptor container was dereferenced

uvars == <<m_key_to_descriptor, m_key_to_texture, m_owning_window, bound, delivered,
           painted, last_update, n_updates, end_dereferenced>>

\* Variables of the render graph: the RenderPass objects.
VARIABLES
  cwdebug,                          \* TRUE in a build with CWDEBUG defined
  m_known_attachments,              \* per render pass: sequence of AttachmentNode
  m_remove_or_dontcare_attachments, \* per render pass: sequence of attachments
  m_next_index,                     \* per render pass: index of the next node
  m_outgoing_vertices,              \* per render pass: set of render passes
  m_incoming_vertices,              \* per render pass: set of render passes
  m_prev_render_pass,               \* per render pass: preceding pass of the stream, 0 if none
  alert,                            \* TRUE once an AIAlert was thrown
  chained,                          \* history: <<a, b, x>> for a->stores(x) >> b, x not don't-care on b
  n_ops                             \* history: number of operations applied

rvars == <<cwdebug, m_known_attachments, m_remove_or_dontcare_attachments, m_next_index,
           m_outgoing_vertices, m_incoming_vertices, m_prev_render_pass, alert, chained, n_ops>>

\* Variables of the registration of render passes (RenderPass::stores_called).
VARIABLES
  m_stores_called,                  \* per render pass (the receiver): set of render passes
  registrations                     \* history: <<receiver, render pass>> per call that returned

gvars == <<m_stores_called, registrations>>

\* Variables of the PipelineCache tasks.  Cache 1 is the one of the factory
\* above; a native pipeline cache handle is named after the task that created it.
VARIABLES
  c_state,                          \* per cache: run state ("none" before the broker runs it)
  m_pipeline_cache,                 \* per cache: the vk::UniquePipelineCache, 0 for a null handle
  m_is_merger,                      \* per cache: PipelineCache::m_is_merger
  c_deque,                          \* per cache: the TaskToTaskDeque of vk::UniquePipelineCache
  c_file,                           \* history: per cache what load_from_disk found on disk
  c_data,                           \* per native handle: "none", "empty" or "loaded"
  destroyed                         \* history: per native handle the number of times it was destroyed

cvars == <<c_state, m_pipeline_cache, m_is_merger, c_deque, c_file, c_data, destroyed>>

\* Variables of the derived queries of a render pass (get_load_op,
\* get_initial_layout, get_final_layout).
VARIABLES
  q_known_attachments,              \* m_known_attachments of the queried render pass
  q_call,                           \* the query made last: [fn, attachment, separate]
  q_result                          \* what that query returned (or how it failed)

qvars == <<q_known_attachments, q_call, q_result>>

\* Variables of the traversal of the graph of render passes
\* (RenderPass::for_all_render_passes_until).
VARIABLES
  t_vertices,                       \* per render pass: [out, inc, sub]: m_outgoing_vertices,
                                    \* m_incoming_vertices, subsequent render pass of m_stream (0: none)
  t_call,                           \* [built, search_type, skip_lambda, stop]: the arguments of
                                    \* the traversals; the visitor returns true on render pass stop
  m_traversal_id,                   \* per render pass: RenderPass::m_traversal_id
  t_last                            \* history: the last traversal (id 0: none yet)
                                    \* [id, fresh, visits, path, diverged]

tvars == <<t_vertices, t_call, m_traversal_id, t_last>>

\* Variables of vulkan::Application (the list of windows).
VARIABLES
  m_window_list,                    \* Application::m_window_list
  m_window_created,                 \* Application::m_window_created
  a_alert,                          \* the last call of Application::add threw an alert
  a_adds,                           \* history: number of calls of add that appended a window
  a_ops                             \* history: number of calls of add and remove

avars == <<m_window_list, m_window_created, a_alert, a_adds, a_ops>>

\* Variables of pipeline::FlatCreateInfo (the colour blend attachment states).
VARIABLES
  m_pipeline_color_blend_attachment_states_list,  \* per added vector: its size
  m_color_blend_state_create_info,  \* [attachmentCount, pAttachments]: pAttachments is "null" or "set"
  k_result,                         \* how the last get_pipeline_color_blend_attachment_states ended
  k_ops                             \* history: number of calls of add and of the getter

kvars == <<m_pipeline_color_blend_attachment_states_list, m_color_blend_state_create_info,
           k_result, k_ops>>

\* Variables of the memory::Image objects.
VARIABLES
  images,                           \* per object: [alive, m_vh_image]; m_vh_image 0 is VK_NULL_HANDLE
  destroy_image_calls,              \* history: per handle the number of calls of destroy_image
  next_image_handle                 \* the handle that the next created image gets

ivars == <<images, destroy_image_calls, next_image_handle>>

\* The variable groups of the smaller parts of the program.
yvars == <<avars, kvars, ivars>>

\* The variable groups of the other parts of the program.
xvars == <<qvars, tvars, yvars>>

\* The variables that the factory and the watcher do not touch.
not_factory == <<uvars, rvars, gvars, cvars, xvars>>
\* The variables that the updater does not touch.
not_updater == <<fvars, wvars, rvars, gvars, cvars, xvars>>
\* The variables that the render graph does not touch.
not_rendergraph == <<fvars, wvars, uvars, gvars, cvars, xvars>>
\* The variables that the pipeline caches do not touch.
not_cache == <<uvars, rvars, gvars, xvars>>
\* The variables that the queries of a render pass do not touch.
not_query == <<fvars, wvars, uvars, rvars, gvars, cvars, tvars, yvars>>
\* The variables that a traversal does not touch.
not_traversal == <<fvars, wvars, uvars, rvars, gvars, cvars, qvars, yvars>>
\* The variables that the Application does not touch.
not_application == <<fvars, wvars, uvars, rvars, gvars, cvars, qvars, tvars, kvars, ivars>>
\* The variables that the FlatCreateInfo does not touch.
not_flat == <<fvars, wvars, uvars, rvars, gvars, cvars, qvars, tvars, avars, ivars>>
\* The variables that the memory::Image objects do not touch.
not_image == <<fvars, wvars, uvars, rvars, gvars, cvars, qvars, tvars, avars, kvars>>

vars == <<fvars, wvars, uvars, rvars, gvars, cvars, xvars>>

\* ------------------------------------------------------------------------
\* CharacteristicRange.
ibegin(ch) == ch.begin
iend(ch) == ch.end

\* CharacteristicRange::update: fold the local counter of one characteristic
\* into the pipeline index, scaled by the size of the range.
update(pipeline_index, ch, range_index) ==
  pipeline_index * (iend(ch) - ibegin(ch)) + (range_index - ibegin(ch))

CharacteristicRanges ==
  { [begin |-> b, end |-> b + s] : b \in 0..MaxBegin, s \in 1..MaxSize }

\* ------------------------------------------------------------------------
\* MultiLoop.
NoLoop == [loops |-> 0, cl |-> 0, c |-> <<>>]

ML_initialize(n, b) == [loops |-> n, cl |-> 1, c |-> [i \in 1..n |-> IF i = 1 THEN b ELSE 0]]
ML_finished(ml) == ml.cl = 0
ML_inner_loop(ml) == ml.cl = ml.loops
ML_value(ml) == ml.c[ml.cl]
ML_next_loop(ml) ==
  IF ml.cl - 1 >= 1
    THEN [ml EXCEPT !.cl = ml.cl - 1, !.c[ml.cl - 1] = ml.c[ml.cl - 1] + 1]
    ELSE [ml EXCEPT !.cl = ml.cl - 1]
ML_start_next_loop_at(ml, b) ==
  IF ML_inner_loop(ml)
    THEN [ml EXCEPT !.c[ml.cl] = ml.c[ml.cl] + 1]
    ELSE [ml EXCEPT !.cl = ml.cl + 1, !.c[ml.cl + 1] = b]

\* RunLoops with the loop condition off by one (<= iend()).
RECURSIVE RunLoops_inclusive_end(_, _)
RunLoops_inclusive_end(chars, ml) ==
  IF ML_finished(ml) THEN ml
  ELSE IF ML_value(ml) <= iend(chars[ml.cl])
    THEN IF ML_inner_loop(ml) THEN ml
         ELSE RunLoops_inclusive_end(chars, ML_start_next_loop_at(ml, ibegin(chars[ml.cl + 1])))
    ELSE RunLoops_inclusive_end(chars, ML_next_loop(ml))

\* The for/while pair of PipelineFactory_generate, run from the entry point
\* of the state up to the next inner loop body or until finished().
RECURSIVE RunLoops(_, _)
RunLoops(chars, ml) ==
  IF ML_finished(ml) THEN ml
  ELSE IF ML_value(ml) < iend(chars[ml.cl])
    THEN IF ML_inner_loop(ml) THEN ml
         ELSE RunLoops(chars, ML_start_next_loop_at(ml, ibegin(chars[ml.cl + 1])))
    ELSE RunLoops(chars, ML_next_loop(ml))

\* pipeline_index of the inner loop body: update() folded over all counters.
RECURSIVE FoldIndex(_, _, _, _)
FoldIndex(chars, c, i, acc) ==
  IF i > Len(chars) THEN acc
  ELSE FoldIndex(chars, c, i + 1, update(acc, chars[i], c[i]))

PipelineIndexOf(chars, c) == FoldIndex(chars, c, 1, 0)

\* MaxPipelineIndex with update() folded at iend() instead of iend() - 1.
MaxPipelineIndex_at_iend(chars) ==
  FoldIndex(chars, [i \in 1..Len(chars) |-> iend(chars[i])], 1, 0)

\* max_pipeline_index of PipelineFactory_initialized: update() of every
\* characteristic folded at iend() - 1.
MaxPipelineIndex(chars) ==
  FoldIndex(chars, [i \in 1..Len(chars) |-> iend(chars[i]) - 1], 1, 0)

\* ------------------------------------------------------------------------
\* Variant of signal(need_action) that only wakes a task that is waiting: a
\* signal sent while the watcher is running is dropped.
WatcherSignalled_lost ==
  IF w_run = "waiting"
    THEN /\ w_run' = "runnable"
         /\ UNCHANGED w_skip_wait
    ELSE UNCHANGED <<w_run, w_skip_wait>>

\* AIStatefulTask::signal on the watcher (condition need_action).
WatcherSignalled ==
  IF w_run = "waiting"
    THEN /\ w_run' = "runnable"
         /\ UNCHANGED w_skip_wait
    ELSE /\ w_skip_wait' = TRUE
         /\ UNCHANGED w_run

\* ------------------------------------------------------------------------
InitFactory ==
  /\ m_characteristics = <<>>
  /\ f_state = "PipelineFactory_start"
  /\ f_run = "runnable"
  /\ f_wait = "none"
  /\ f_skip_wait = {}
  /\ f_pc = "top"
  /\ f_turns = 0
  /\ m_range_counters = NoLoop
  /\ m_graphics_pipelines = <<>>
  /\ created = <<>>
  /\ notified = 0
  /\ signalled = {}
  /\ w_state = "none"
  /\ w_run = "none"
  /\ w_skip_wait = FALSE
  /\ w_pc = "top"
  /\ w_handle = -1
  /\ m_new_pipelines = <<>>
  /\ m_parent_finished = FALSE
  /\ forwarded = <<>>

\* AIStatefulTask::wait(cond) of the factory.
FactoryWait(cond) ==
  IF cond \in f_skip_wait
    THEN /\ f_skip_wait' = f_skip_wait \ {cond}
         /\ UNCHANGED <<f_run, f_wait>>
    ELSE /\ f_run' = "waiting"
         /\ f_wait' = cond
         /\ UNCHANGED f_skip_wait

\* AIStatefulTask::signal(cond) on the factory.
FactorySignal(cond) ==
  /\ signalled' = signalled \cup {cond}
  /\ IF f_run = "waiting" /\ f_wait = cond
       THEN /\ f_run' = "runnable"
            /\ f_wait' = "none"
            /\ UNCHANGED f_skip_wait
       ELSE /\ f_skip_wait' = f_skip_wait \cup {cond}
            /\ UNCHANGED <<f_run, f_wait>>

\* The user has not yet called generate() on the factory.
GenerateNotCalled ==
  /\ "fully_initialized" \notin f_skip_wait
  /\ \/ f_state \in {"PipelineFactory_start", "PipelineFactory_initialize"}
     \/ f_state = "PipelineFactory_initialized" /\ f_run = "waiting"

\* PipelineFactory::add, called by the user before generate().
Add(ch) ==
  /\ UNCHANGED not_factory
  /\ UNCHANGED signalled
  /\ GenerateNotCalled
  /\ Len(m_characteristics) < MaxChars
  /\ MaxPipelineIndex(Append(m_characteristics, ch)) < MaxPipelines
  /\ m_characteristics' = Append(m_characteristics, ch)
  /\ UNCHANGED <<f_state, f_run, f_wait, f_skip_wait, f_pc, f_turns, m_range_counters,
                 m_graphics_pipelines, created, notified, wvars>>

\* PipelineFactory::generate, called by the user: signal(fully_initialized).
UserGenerate ==
  /\ UNCHANGED not_factory
  /\ GenerateNotCalled
  /\ FactorySignal("fully_initialized")
  /\ UNCHANGED <<m_characteristics, f_state, f_pc, f_turns, m_range_counters,
                 m_graphics_pipelines, created, notified, wvars>>

\* case PipelineFactory_start.
FactoryStart ==
  /\ UNCHANGED not_factory
  /\ UNCHANGED signalled
  /\ f_run = "runnable"
  /\ f_state = "PipelineFactory_start"
  /\ f_state' = "PipelineFactory_initialize"
  /\ f_pc' = "cache_requested"
  /\ FactoryWait("pipeline_cache_set_up")
  /\ UNCHANGED <<m_characteristics, f_turns, m_range_counters, m_graphics_pipelines,
                 created, notified, wvars>>

\* The callback passed to m_broker->run, called with the success of the
\* PipelineCache task: signal(pipeline_cache_set_up), whatever success is.
PipelineCacheSetUp(success) ==
  /\ UNCHANGED not_factory
  /\ f_pc = "cache_requested"
  /\ f_pc' = "top"
  /\ FactorySignal("pipeline_cache_set_up")
  /\ UNCHANGED <<m_characteristics, f_state, f_turns, m_range_counters,
                 m_graphics_pipelines, created, notified, wvars>>

\* Variant of PipelineFactory_initialize without the wait for fully_initialized.
FactoryInitialize_no_wait ==
  /\ UNCHANGED not_factory
  /\ UNCHANGED signalled
  /\ f_run = "runnable"
  /\ f_state = "PipelineFactory_initialize"
  /\ f_state' = "PipelineFactory_initialized"
  /\ UNCHANGED <<f_run, f_wait, f_skip_wait>>
  /\ UNCHANGED <<m_characteristics, f_pc, f_turns, m_range_counters, m_graphics_pipelines,
                 created, notified, wvars>>

\* case PipelineFactory_initialize.
FactoryInitialize ==
  /\ UNCHANGED not_factory
  /\ UNCHANGED signalled
  /\ f_run = "runnable"
  /\ f_state = "PipelineFactory_initialize"
  /\ f_state' = "PipelineFactory_initialized"
  /\ FactoryWait("fully_initialized")
  /\ UNCHANGED <<m_characteristics, f_pc, f_turns, m_range_counters, m_graphics_pipelines,
                 created, notified, wvars>>


\* EnterGenerate without the call of have_new_pipeline.
EnterGenerate_no_notify(ml) ==
  LET ml2 == RunLoops(m_characteristics, ml) IN
  /\ m_range_counters' = ml2
  /\ IF ML_finished(ml2)
       THEN /\ f_state' = "PipelineFactory_done"
            /\ m_parent_finished' = TRUE
            /\ f_pc' = "signal_terminate"
            /\ UNCHANGED <<created, notified, m_new_pipelines>>
       ELSE LET pipeline_index == PipelineIndexOf(m_characteristics, ml2.c) IN
            /\ f_state' = "PipelineFactory_generate"
            /\ created' = Append(created, <<ml2.c, pipeline_index>>)
            /\ f_pc' = "signal_new"
            /\ UNCHANGED <<m_parent_finished, notified, m_new_pipelines>>

\* The top of case PipelineFactory_generate, entered with counters ml: run the
\* loops up to the inner loop body; there create the pipeline, store it and
\* push its handle (first half of have_new_pipeline).  When the loops are
\* finished enter PipelineFactory_done: first half of terminate().
EnterGenerate(ml) ==
  LET ml2 == RunLoops(m_characteristics, ml) IN
  /\ m_range_counters' = ml2
  /\ IF ML_finished(ml2)
       THEN /\ f_state' = "PipelineFactory_done"
            /\ m_parent_finished' = TRUE
            /\ f_pc' = "signal_terminate"
            /\ UNCHANGED <<created, notified, m_new_pipelines>>
       ELSE LET pipeline_index == PipelineIndexOf(m_characteristics, ml2.c) IN
            /\ f_state' = "PipelineFactory_generate"
            /\ created' = Append(created, <<ml2.c, pipeline_index>>)
            /\ m_new_pipelines' = Append(m_new_pipelines, pipeline_index)
            /\ notified' = notified + 1
            /\ f_pc' = "signal_new"
            /\ UNCHANGED m_parent_finished

\* m_graphics_pipelines[pipeline_index] = create_graphics_pipeline(...).
StorePipeline(pipelines, ml) ==
  LET ml2 == RunLoops(m_characteristics, ml)
      pipeline_index == PipelineIndexOf(m_characteristics, ml2.c) IN
  IF ML_finished(ml2) THEN pipelines
  ELSE IF pipeline_index + 1 \in DOMAIN pipelines
    THEN [pipelines EXCEPT ![pipeline_index + 1] = @ + 1]
    ELSE pipelines

\* case PipelineFactory_initialized, falling through into PipelineFactory_generate.
\* The ASSERT on m_characteristics is compiled in only in a debug build; without
\* it m_characteristics[0] of the empty vector is read (undefined behaviour):
\* the task crashes, or goes on with loop counters that are finished at once.
FactoryInitialized ==
  /\ UNCHANGED not_factory
  /\ UNCHANGED signalled
  /\ f_run = "runnable"
  /\ f_state = "PipelineFactory_initialized"
  /\ w_state' = "PipelineFactoryWatcher_start"
  /\ w_run' = "runnable"
  /\ IF Len(m_characteristics) = 0
       THEN \/ /\ cwdebug
               /\ f_run' = "assert_failed"
               /\ UNCHANGED <<f_state, f_pc, m_range_counters, m_graphics_pipelines, created,
                              notified, m_new_pipelines, m_parent_finished>>
            \/ /\ ~cwdebug
               /\ f_run' = "crashed"
               /\ UNCHANGED <<f_state, f_pc, m_range_counters, m_graphics_pipelines, created,
                              notified, m_new_pipelines, m_parent_finished>>
            \/ /\ ~cwdebug
               /\ EnterGenerate(NoLoop)
               /\ m_graphics_pipelines' = <<0>>
               /\ UNCHANGED f_run
       ELSE LET ml == ML_initialize(Len(m_characteristics), ibegin(m_characteristics[1]))
                resized == [i \in 1..(MaxPipelineIndex(m_characteristics) + 1) |-> 0] IN
            /\ EnterGenerate(ml)
            /\ m_graphics_pipelines' = StorePipeline(resized, ml)
            /\ UNCHANGED f_run
  /\ UNCHANGED <<m_characteristics, f_wait, f_skip_wait, f_turns,
                 w_skip_wait, w_pc, w_handle, forwarded>>

\* FactoryGenerate with the loop counters kept as transient state: every
\* entry starts the loops again.
FactoryGenerate_transient_counters ==
  /\ UNCHANGED not_factory
  /\ UNCHANGED signalled
  /\ f_run = "runnable"
  /\ f_state = "PipelineFactory_generate"
  /\ f_pc = "top"
  /\ EnterGenerate(ML_initialize(Len(m_characteristics), ibegin(m_characteristics[1])))
  /\ m_graphics_pipelines' = m_graphics_pipelines
  /\ UNCHANGED <<m_characteristics, f_run, f_wait, f_skip_wait, f_turns,
                 w_state, w_run, w_skip_wait, w_pc, w_handle, forwarded>>

\* case PipelineFactory_generate, entered after a yield.
FactoryGenerate ==
  /\ UNCHANGED not_factory
  /\ UNCHANGED signalled
  /\ f_run = "runnable"
  /\ f_state = "PipelineFactory_generate"
  /\ f_pc = "top"
  /\ EnterGenerate(m_range_counters)
  /\ m_graphics_pipelines' = StorePipeline(m_graphics_pipelines, m_range_counters)
  /\ UNCHANGED <<m_characteristics, f_run, f_wait, f_skip_wait, f_turns,
                 w_state, w_run, w_skip_wait, w_pc, w_handle, forwarded>>

\* Variant of the end of the inner loop body that goes on without yield().
FactorySignalNew_no_yield ==
  /\ UNCHANGED not_factory
  /\ UNCHANGED signalled
  /\ f_run = "runnable"
  /\ f_state = "PipelineFactory_generate"
  /\ f_pc = "signal_new"
  /\ WatcherSignalled
  /\ m_range_counters' = ML_start_next_loop_at(m_range_counters, 0)
  /\ f_pc' = "top"
  /\ f_turns' = f_turns
  /\ UNCHANGED <<m_characteristics, f_state, f_run, f_wait, f_skip_wait,
                 m_graphics_pipelines, created, notified,
                 w_state, w_pc, w_handle, m_new_pipelines, m_parent_finished, forwarded>>

\* Second half of have_new_pipeline: signal(need_action); then the end of the
\* inner loop body: start_next_loop_at(b) and yield().
FactorySignalNew ==
  /\ UNCHANGED not_factory
  /\ UNCHANGED signalled
  /\ f_run = "runnable"
  /\ f_state = "PipelineFactory_generate"
  /\ f_pc = "signal_new"
  /\ WatcherSignalled
  /\ m_range_counters' = ML_start_next_loop_at(m_range_counters, 0)
  /\ f_pc' = "top"
  /\ f_turns' = f_turns + 1
  /\ UNCHANGED <<m_characteristics, f_state, f_run, f_wait, f_skip_wait,
                 m_graphics_pipelines, created, notified,
                 w_state, w_pc, w_handle, m_new_pipelines, m_parent_finished, forwarded>>

\* case PipelineFactory_done: second half of terminate(), then finish().
FactoryDone ==
  /\ UNCHANGED not_factory
  /\ UNCHANGED signalled
  /\ f_run = "runnable"
  /\ f_state = "PipelineFactory_done"
  /\ f_pc = "signal_terminate"
  /\ WatcherSignalled
  /\ f_run' = "finished"
  /\ f_pc' = "top"
  /\ UNCHANGED <<m_characteristics, f_state, f_wait, f_skip_wait, f_turns, m_range_counters,
                 m_graphics_pipelines, created, notified,
                 w_state, w_pc, w_handle, m_new_pipelines, m_parent_finished, forwarded>>

\* ------------------------------------------------------------------------
\* PipelineFactoryWatcher::multiplex_impl.

\* case PipelineFactoryWatcher_start.
WatcherStart ==
  /\ UNCHANGED not_factory
  /\ UNCHANGED signalled
  /\ w_run = "runnable"
  /\ w_state = "PipelineFactoryWatcher_start"
  /\ w_state' = "PipelineFactoryWatcher_need_action"
  /\ IF w_skip_wait
       THEN w_skip_wait' = FALSE /\ UNCHANGED w_run
       ELSE w_run' = "waiting" /\ UNCHANGED w_skip_wait
  /\ UNCHANGED <<fvars, w_pc, w_handle, m_new_pipelines, m_parent_finished, forwarded>>

\* case PipelineFactoryWatcher_need_action: the block holding the write lock.
WatcherLock ==
  /\ UNCHANGED not_factory
  /\ UNCHANGED signalled
  /\ w_run = "runnable"
  /\ w_state = "PipelineFactoryWatcher_need_action"
  /\ w_pc = "top"
  /\ IF m_new_pipelines = <<>>
       THEN /\ w_pc' = "test"
            /\ UNCHANGED <<w_handle, m_new_pipelines>>
       ELSE /\ w_handle' = Head(m_new_pipelines)
            /\ m_new_pipelines' = Tail(m_new_pipelines)
            /\ w_pc' = "forward"
  /\ UNCHANGED <<fvars, w_state, w_run, w_skip_wait, m_parent_finished, forwarded>>

\* owning_window()->new_pipeline(pipeline_handle).
WatcherForward ==
  /\ UNCHANGED not_factory
  /\ UNCHANGED signalled
  /\ w_run = "runnable"
  /\ w_state = "PipelineFactoryWatcher_need_action"
  /\ w_pc = "forward"
  /\ forwarded' = Append(forwarded, w_handle)
  /\ w_pc' = "top"
  /\ UNCHANGED <<fvars, w_state, w_run, w_skip_wait, w_handle, m_new_pipelines, m_parent_finished>>

\* Variant of the test after the drain loop that finishes whenever the queue
\* was found empty, whether or not the parent has called terminate().
WatcherTest_finish_when_drained ==
  /\ UNCHANGED not_factory
  /\ UNCHANGED signalled
  /\ w_run = "runnable"
  /\ w_state = "PipelineFactoryWatcher_need_action"
  /\ w_pc = "test"
  /\ w_state' = "PipelineFactoryWatcher_done"
  /\ w_run' = "finished"
  /\ w_pc' = "top"
  /\ UNCHANGED <<fvars, w_skip_wait, w_handle, m_new_pipelines, m_parent_finished, forwarded>>

\* if (!m_parent_finished) ... else set_state(PipelineFactoryWatcher_done); finish().
WatcherTest ==
  /\ UNCHANGED not_factory
  /\ UNCHANGED signalled
  /\ w_run = "runnable"
  /\ w_state = "PipelineFactoryWatcher_need_action"
  /\ w_pc = "test"
  /\ IF ~m_parent_finished
       THEN /\ w_pc' = "wait"
            /\ UNCHANGED <<w_state, w_run>>
       ELSE /\ w_state' = "PipelineFactoryWatcher_done"
            /\ w_run' = "finished"
            /\ w_pc' = "top"
  /\ UNCHANGED <<fvars, w_skip_wait, w_handle, m_new_pipelines, m_parent_finished, forwarded>>

\* wait(need_action); break.
WatcherWait ==
  /\ UNCHANGED not_factory
  /\ UNCHANGED signalled
  /\ w_run = "runnable"
  /\ w_state = "PipelineFactoryWatcher_need_action"
  /\ w_pc = "wait"
  /\ w_pc' = "top"
  /\ IF w_skip_wait
       THEN w_skip_wait' = FALSE /\ UNCHANGED w_run
       ELSE w_run' = "waiting" /\ UNCHANGED w_skip_wait
  /\ UNCHANGED <<fvars, w_state, w_handle, m_new_pipelines, m_parent_finished, forwarded>>

\* ------------------------------------------------------------------------
\* CombinedImageSamplerUpdater.
\*
\* An entry of m_factory_characteristic_key_to_descriptor is
\* [id, b, e, target]: the key (id, subrange [b, e>) and the descriptor
\* set/binding pair.  An entry of m_factory_characteristic_key_to_texture is
\* [id, b, e, tex].  The code of the release build is modelled: the blocks
\* under CW_DEBUG are compiled out.

Ids == 1..NumIds
Fills == 0..(MaxFill - 1)
Targets == 1..NumTargets
Textures == 1..NumTextures
Windows == {1, 2}
Ranges == { r \in [b : Fills, e : 1..MaxFill] : r.b < r.e }
LoadingTexture == 0

Min(a, b) == IF a < b THEN a ELSE b
Max(a, b) == IF a < b THEN b ELSE a

\* ConsecutiveRange::operator<: lhs lies entirely before rhs.
RangeLess(lhs, rhs) == lhs.e <= rhs.b

\* FactoryCharacteristicKey::operator==: the ids match and the subranges overlap.
KeyEq(k1, k2) == k1.id = k2.id /\ k1.b < k2.e /\ k2.b < k1.e

\* FactoryCharacteristicKey::extend_subrange.
ExtendSubrange(entry, b, e) == [entry EXCEPT !.b = Min(entry.b, b), !.e = Max(entry.e, e)]

InsertAt(seq, i, x) == SubSeq(seq, 1, i - 1) \o <<x>> \o SubSeq(seq, i, Len(seq))

\* The first position whose id is not less than id (Len + 1 stands for end()).
RECURSIVE FirstNotLess(_, _, _)
FirstNotLess(seq, id, i) ==
  IF i > Len(seq) THEN i
  ELSE IF ~(seq[i].id < id) THEN i
  ELSE FirstNotLess(seq, id, i + 1)

\* The while loop over fill_index of the descriptor branch, from position i.
RECURSIVE ScanFillIndex(_, _, _)
ScanFillIndex(seq, fill_index, i) ==
  IF i > Len(seq) THEN i
  ELSE IF fill_index < seq[i].b THEN i
  ELSE ScanFillIndex(seq, fill_index, i + 1)

\* find_texture: the first texture entry whose key equals key, 0 if none.
RECURSIVE find_texture(_, _, _)
find_texture(seq, key, i) ==
  IF i > Len(seq) THEN 0
  ELSE IF KeyEq(seq[i], key) THEN i
  ELSE find_texture(seq, key, i + 1)

\* find_descriptors: the half open range <<begin, end>> of positions.
RECURSIVE FindBegin(_, _, _)
FindBegin(seq, key, i) ==
  IF i > Len(seq) THEN i
  ELSE IF KeyEq(seq[i], key) THEN i
  ELSE FindBegin(seq, key, i + 1)

RECURSIVE FindEnd(_, _, _)
FindEnd(seq, key, i) ==
  IF i > Len(seq) THEN i
  ELSE IF ~KeyEq(seq[i], key) THEN i
  ELSE FindEnd(seq, key, i + 1)

find_descriptors(seq, key) ==
  LET begin == FindBegin(seq, key, 1) IN
  IF begin > Len(seq) THEN <<begin, begin>>
  ELSE <<begin, FindEnd(seq, key, begin + 1)>>

\* The result of the descriptor branch on container seq: the new container,
\* the key used for find_texture and whether end() is dereferenced.  When the
\* scan ran up to end() the test of iter (n == 1) reads past the end of the
\* vector; garbage_matches is what that comparison yields (the subrange then
\* copied into key is garbage as well).
DescriptorInsert(seq, id, fill_index, target, garbage_matches) ==
  LET key == [id |-> id, b |-> fill_index, e |-> fill_index + 1]
      new == [id |-> id, b |-> fill_index, e |-> fill_index + 1, target |-> target]
      first == FirstNotLess(seq, id, 1) IN
  IF first > Len(seq) \/ id < seq[first].id
    THEN [seq |-> InsertAt(seq, first, new), key |-> key, ub |-> FALSE, garbage_key |-> FALSE]
    ELSE
      LET iter == ScanFillIndex(seq, fill_index, first)
          prev == iter - 1
          prev_valid == iter > first IN
      IF prev_valid /\ seq[prev].target = target
        THEN LET merged == ExtendSubrange(seq[prev], fill_index, fill_index + 1) IN
             [seq |-> [seq EXCEPT ![prev] = merged],
              key |-> [id |-> id, b |-> merged.b, e |-> merged.e], ub |-> FALSE,
              garbage_key |-> FALSE]
      ELSE IF iter > Len(seq)
        THEN IF garbage_matches
               THEN [seq |-> seq, key |-> key, ub |-> TRUE, garbage_key |-> TRUE]
               ELSE [seq |-> InsertAt(seq, iter, new), key |-> key, ub |-> TRUE,
                     garbage_key |-> FALSE]
      ELSE IF seq[iter].target = target
        THEN LET merged == ExtendSubrange(seq[iter], fill_index, fill_index + 1) IN
             [seq |-> [seq EXCEPT ![iter] = merged],
              key |-> [id |-> id, b |-> merged.b, e |-> merged.e], ub |-> FALSE,
              garbage_key |-> FALSE]
      ELSE [seq |-> InsertAt(seq, iter, new), key |-> key, ub |-> FALSE, garbage_key |-> FALSE]

\* The while loop of the texture branch from position i; same_texture is the
\* value left by the previous iteration.
RECURSIVE ScanTexture(_, _, _, _)
ScanTexture(seq, req, i, same_texture) ==
  IF i > Len(seq) \/ seq[i].id # req.id
    THEN [iter |-> i, same_factory_characteristic_id |-> FALSE, same_texture |-> same_texture]
  ELSE IF ~RangeLess(seq[i], req)
    THEN [iter |-> i, same_factory_characteristic_id |-> TRUE, same_texture |-> seq[i].tex = req.tex]
  ELSE IF seq[i].tex = req.tex
    THEN [iter |-> i, same_factory_characteristic_id |-> FALSE, same_texture |-> TRUE]
  ELSE ScanTexture(seq, req, i + 1, FALSE)

\* The result of the texture branch on container seq for request req.
TextureInsert(seq, req) ==
  LET first == FirstNotLess(seq, req.id, 1) IN
  IF first > Len(seq) \/ req.id < seq[first].id
    THEN InsertAt(seq, first, req)
    ELSE
      LET scan == ScanTexture(seq, req, first, FALSE)
          iter == scan.iter IN
      IF ~scan.same_factory_characteristic_id \/ RangeLess(req, seq[iter])
        THEN IF scan.same_texture
               THEN [seq EXCEPT ![iter] = ExtendSubrange(seq[iter], req.b, req.e)]
               ELSE InsertAt(seq, iter, req)
        ELSE IF scan.same_texture
               THEN [seq EXCEPT ![iter] = ExtendSubrange(seq[iter], req.b, req.e)]
               ELSE [seq EXCEPT ![iter] = [ExtendSubrange(seq[iter], req.b, req.e) EXCEPT !.tex = req.tex]]

\* The cells of one id that hold value v are consecutive.
Contiguous(cells, v) ==
  \A i, j, k \in Fills : (i < j /\ j < k /\ cells[i] = v /\ cells[k] = v) => cells[j] = v

\* No cell with another value lies between two cells that hold v.
NoForeignBetween(cells, v) ==
  \A i, j, k \in Fills : (i < j /\ j < k /\ cells[i] = v /\ cells[k] = v) => cells[j] \in {0, v}

InitUpdater ==
  /\ m_key_to_descriptor = <<>>
  /\ m_key_to_texture = <<>>
  /\ m_owning_window = 0
  /\ bound = [t \in Targets |-> -1]
  /\ delivered = [id \in Ids |-> [f \in Fills |-> 0]]
  /\ painted = [id \in Ids |-> [f \in Fills |-> 0]]
  /\ last_update = [kind |-> "none"]
  /\ n_updates = 0
  /\ end_dereferenced = FALSE

\* The lambda of flush_new_data for a DescriptorUpdateInfo.  The descriptors of
\* one id are sent once per fill_index, every descriptor set/binding for a
\* consecutive range of fill indices.  garbage_texture is what find_texture
\* yields for a garbage key: the texture of some entry of the id, or none.
DescriptorUpdate(id, fill_index, target, garbage_matches, garbage_texture, owning_window) ==
  LET cells == [delivered[id] EXCEPT ![fill_index] = target]
      res == DescriptorInsert(m_key_to_descriptor, id, fill_index, target, garbage_matches)
      texture == find_texture(m_key_to_texture, res.key, 1) IN
  /\ delivered[id][fill_index] = 0
  /\ n_updates < MaxUpdates
  /\ n_updates' = n_updates + 1
  /\ \A t \in Targets : NoForeignBetween(cells, t)
  /\ garbage_matches => res.garbage_key
  /\ IF res.garbage_key
       THEN garbage_texture \in {LoadingTexture} \cup
              {m_key_to_texture[i].tex : i \in {j \in 1..Len(m_key_to_texture) : m_key_to_texture[j].id = id}}
       ELSE garbage_texture = LoadingTexture
  /\ delivered' = [delivered EXCEPT ![id] = cells]
  /\ m_owning_window' = owning_window
  /\ m_key_to_descriptor' = res.seq
  /\ end_dereferenced' = (end_dereferenced \/ res.ub)
  /\ bound' = [bound EXCEPT ![target] =
                 IF res.garbage_key THEN garbage_texture
                 ELSE IF texture # 0 THEN m_key_to_texture[texture].tex
                 ELSE LoadingTexture]
  /\ last_update' = [kind |-> "descriptor"]
  /\ UNCHANGED <<m_key_to_texture, painted>>
  /\ UNCHANGED not_updater

\* The lambda of flush_new_data for a TextureUpdateRequest.  A request covers
\* cells of at most one texture that is already there, and leaves the cells
\* of every texture consecutive.
TextureUpdate(id, range, tex) ==
  LET req == [id |-> id, b |-> range.b, e |-> range.e, tex |-> tex]
      cells == [f \in Fills |-> IF range.b <= f /\ f < range.e THEN tex ELSE painted[id][f]]
      matching == find_descriptors(m_key_to_descriptor, req) IN
  /\ n_updates < MaxUpdates
  /\ n_updates' = n_updates + 1
  /\ Cardinality({painted[id][f] : f \in range.b..(range.e - 1)} \ {0}) <= 1
  /\ \A x \in Textures : Contiguous(cells, x)
  /\ painted' = [painted EXCEPT ![id] = cells]
  /\ m_key_to_texture' = TextureInsert(m_key_to_texture, req)
  /\ bound' = [t \in Targets |->
                 IF \E i \in matching[1]..(matching[2] - 1) : m_key_to_descriptor[i].target = t
                   THEN tex ELSE bound[t]]
  /\ last_update' = [kind |-> "texture", id |-> id, b |-> range.b, e |-> range.e, tex |-> tex,
                     replaces |-> \E i \in 1..Len(m_key_to_texture) :
                                     KeyEq(m_key_to_texture[i], req) /\ m_key_to_texture[i].tex # tex]
  /\ UNCHANGED <<m_key_to_descriptor, m_owning_window, delivered, end_dereferenced>>
  /\ UNCHANGED not_updater

NextUpdater ==
  \/ \E id \in Ids, f \in Fills, t \in Targets, g \in BOOLEAN, x \in Textures \cup {LoadingTexture},
        w \in Windows :
       DescriptorUpdate(id, f, t, g, x, w)
  \/ \E id \in Ids, r \in Ranges, x \in Textures : TextureUpdate(id, r, x)

\* ------------------------------------------------------------------------
\* RenderPass, AttachmentNode and RenderPassStream.

Passes == 1..NumPasses
Attachments == 1..NumAttachments

\* find_by_ID: the position of the element with the id of attachment, 0 for end().
RECURSIVE FindNode(_, _, _)
FindNode(nodes, attachment, i) ==
  IF i > Len(nodes) THEN 0
  ELSE IF nodes[i].attachment = attachment THEN i
  ELSE FindNode(nodes, attachment, i + 1)

RECURSIVE FindAttachment(_, _, _)
FindAttachment(list, attachment, i) ==
  IF i > Len(list) THEN 0
  ELSE IF list[i] = attachment THEN i
  ELSE FindAttachment(list, attachment, i + 1)

RemoveAt(seq, i) == SubSeq(seq, 1, i - 1) \o SubSeq(seq, i + 1, Len(seq))

\* A render pass as a record rp = [known, removed, next_index].
\* The result of a member function is [rp, pos, alert]: the render pass
\* afterwards, the position of the node it returns and whether it threw.

\* RenderPass::get_node.
get_node(rp, attachment) ==
  LET iter == FindNode(rp.known, attachment, 1) IN
  IF iter # 0 THEN [rp |-> rp, pos |-> iter, alert |-> FALSE]
  ELSE IF FindAttachment(rp.removed, attachment, 1) # 0
    THEN [rp |-> rp, pos |-> 0, alert |-> TRUE]
  ELSE [rp |-> [rp EXCEPT !.known = Append(@, [attachment |-> attachment, index |-> rp.next_index,
                                               load |-> FALSE, clear |-> FALSE, store |-> FALSE]),
                          !.next_index = @ + 1],
        pos |-> Len(rp.known) + 1, alert |-> FALSE]

\* AttachmentNode::set_load on node pos of rp: clear and load exclude each other.
set_load(rp, pos) ==
  IF rp.known[pos].clear THEN [rp |-> rp, pos |-> pos, alert |-> TRUE]
  ELSE [rp |-> [rp EXCEPT !.known[pos].load = TRUE], pos |-> pos, alert |-> FALSE]

\* AttachmentNode::set_clear on node pos of rp.
set_clear(rp, pos) ==
  IF rp.known[pos].load THEN [rp |-> rp, pos |-> pos, alert |-> TRUE]
  ELSE [rp |-> [rp EXCEPT !.known[pos].clear = TRUE], pos |-> pos, alert |-> FALSE]

\* AttachmentNode::set_store on node pos of rp.
set_store(rp, pos) ==
  [rp |-> [rp EXCEPT !.known[pos].store = TRUE], pos |-> pos, alert |-> FALSE]

\* RenderPass::operator[](Attachment::OpLoad).
LoadAttachment(rp, attachment) ==
  LET node == get_node(rp, attachment) IN
  IF node.alert THEN node ELSE set_load(node.rp, node.pos)

\* Variant of operator[](Attachment::OpClear) that writes the clear flag itself.
ClearAttachment_unchecked(rp, attachment) ==
  LET node == get_node(rp, attachment) IN
  IF node.alert THEN node
  ELSE [rp |-> [node.rp EXCEPT !.known[node.pos].clear = TRUE], pos |-> node.pos, alert |-> FALSE]

\* RenderPass::operator[](Attachment::OpClear).
ClearAttachment(rp, attachment) ==
  LET node == get_node(rp, attachment) IN
  IF node.alert THEN node ELSE set_clear(node.rp, node.pos)

\* RenderPass::store_attachment(Attachment const&).
store_attachment(rp, attachment) ==
  LET node == get_node(rp, attachment) IN
  IF node.alert THEN node
  ELSE IF node.rp.known[node.pos].clear THEN [rp |-> node.rp, pos |-> node.pos, alert |-> TRUE]
  ELSE set_store(node.rp, node.pos)

\* Variant of store_attachment(Attachment::OpClear) without the call of set_store.
store_attachment_clear_only(rp, attachment) ==
  LET node == get_node(rp, attachment) IN
  IF node.alert THEN node
  ELSE set_clear(node.rp, node.pos)

\* RenderPass::store_attachment(Attachment::OpClear).
store_attachment_clear(rp, attachment) ==
  LET node == get_node(rp, attachment) IN
  IF node.alert THEN node
  ELSE set_clear(set_store(node.rp, node.pos).rp, node.pos)

\* Variant of preceding_render_pass_stores that only makes the attachment known.
preceding_render_pass_stores_no_load(rp, attachment) ==
  LET iter == FindAttachment(rp.removed, attachment, 1) IN
  IF iter # 0
    THEN [rp |-> [rp EXCEPT !.removed = RemoveAt(@, iter)], alert |-> FALSE, consumed |-> TRUE]
    ELSE LET res == get_node(rp, attachment) IN
         [rp |-> res.rp, alert |-> res.alert, consumed |-> FALSE]

\* RenderPass::preceding_render_pass_stores; consumed tells that the attachment
\* was found in (and erased from) m_remove_or_dontcare_attachments.
preceding_render_pass_stores(rp, attachment) ==
  LET iter == FindAttachment(rp.removed, attachment, 1) IN
  IF iter # 0
    THEN [rp |-> [rp EXCEPT !.removed = RemoveAt(@, iter)], alert |-> FALSE, consumed |-> TRUE]
    ELSE LET res == LoadAttachment(rp, attachment) IN
         [rp |-> res.rp, alert |-> res.alert, consumed |-> FALSE]

\* RenderPass::do_load_dont_cares.
RECURSIVE AddDontCares(_, _)
AddDontCares(rp, dontcare_attachments) ==
  IF dontcare_attachments = <<>> THEN [rp |-> rp, alert |-> FALSE]
  ELSE LET node == get_node(rp, Head(dontcare_attachments)) IN
       IF node.alert THEN [rp |-> node.rp, alert |-> TRUE]
       ELSE AddDontCares(node.rp, Tail(dontcare_attachments))

do_load_dont_cares(rp) == AddDontCares([rp EXCEPT !.removed = <<>>], rp.removed)

\* The render pass p as a record, and the assignment of a record to p.
RenderPassOf(p) ==
  [known |-> m_known_attachments[p], removed |-> m_remove_or_dontcare_attachments[p],
   next_index |-> m_next_index[p]]

SetRenderPass(p, rp) ==
  /\ m_known_attachments' = [m_known_attachments EXCEPT ![p] = rp.known]
  /\ m_remove_or_dontcare_attachments' = [m_remove_or_dontcare_attachments EXCEPT ![p] = rp.removed]
  /\ m_next_index' = [m_next_index EXCEPT ![p] = rp.next_index]

InitRenderGraph ==
  /\ cwdebug \in BOOLEAN
  /\ m_known_attachments = [p \in Passes |-> <<>>]
  /\ m_remove_or_dontcare_attachments = [p \in Passes |-> <<>>]
  /\ m_next_index = [p \in Passes |-> 0]
  /\ m_outgoing_vertices = [p \in Passes |-> {}]
  /\ m_incoming_vertices = [p \in Passes |-> {}]
  /\ m_prev_render_pass = [p \in Passes |-> 0]
  /\ alert = FALSE
  /\ chained = {}
  /\ n_ops = 0

\* An operation is applied while building the graph: no alert was thrown yet.
Building ==
  /\ ~alert
  /\ n_ops < MaxOps
  /\ n_ops' = n_ops + 1
  /\ UNCHANGED cwdebug

\* pass[-attachment].
OpRemoveOrDontCare(p, attachment) ==
  /\ Building
  /\ IF cwdebug /\ (\/ FindNode(m_known_attachments[p], attachment, 1) # 0
                    \/ FindAttachment(m_remove_or_dontcare_attachments[p], attachment, 1) # 0)
       THEN /\ alert' = TRUE
            /\ UNCHANGED m_remove_or_dontcare_attachments
       ELSE /\ m_remove_or_dontcare_attachments' =
                 [m_remove_or_dontcare_attachments EXCEPT ![p] = Append(@, attachment)]
            /\ UNCHANGED alert
  /\ UNCHANGED <<m_known_attachments, m_next_index, m_outgoing_vertices, m_incoming_vertices,
                 m_prev_render_pass, chained>>
  /\ UNCHANGED not_rendergraph

\* pass[+attachment].
OpLoad(p, attachment) ==
  LET res == LoadAttachment(RenderPassOf(p), attachment) IN
  /\ Building
  /\ SetRenderPass(p, res.rp)
  /\ alert' = res.alert
  /\ UNCHANGED <<m_outgoing_vertices, m_incoming_vertices, m_prev_render_pass, chained>>
  /\ UNCHANGED not_rendergraph

\* pass[~attachment].
OpClear(p, attachment) ==
  LET res == ClearAttachment(RenderPassOf(p), attachment) IN
  /\ Building
  /\ SetRenderPass(p, res.rp)
  /\ alert' = res.alert
  /\ UNCHANGED <<m_outgoing_vertices, m_incoming_vertices, m_prev_render_pass, chained>>
  /\ UNCHANGED not_rendergraph

\* pass->stores(attachment).
Stores(p, attachment) ==
  LET res == store_attachment(RenderPassOf(p), attachment) IN
  /\ Building
  /\ SetRenderPass(p, res.rp)
  /\ alert' = res.alert
  /\ UNCHANGED <<m_outgoing_vertices, m_incoming_vertices, m_prev_render_pass, chained>>
  /\ UNCHANGED not_rendergraph

\* pass->stores(~attachment).
StoresClear(p, attachment) ==
  LET res == store_attachment_clear(RenderPassOf(p), attachment) IN
  /\ Building
  /\ SetRenderPass(p, res.rp)
  /\ alert' = res.alert
  /\ UNCHANGED <<m_outgoing_vertices, m_incoming_vertices, m_prev_render_pass, chained>>
  /\ UNCHANGED not_rendergraph

\* The attachments that render pass a stores, in the order of its nodes.
RECURSIVE StoredBy(_)
StoredBy(nodes) ==
  IF nodes = <<>> THEN <<>>
  ELSE IF Head(nodes).store THEN <<Head(nodes).attachment>> \o StoredBy(Tail(nodes))
  ELSE StoredBy(Tail(nodes))

\* preceding_render_pass_stores of rp for every attachment of the list;
\* loaded is the set of attachments that became inputs.
RECURSIVE Propagate(_, _, _)
Propagate(rp, attachments, loaded) ==
  IF attachments = <<>> THEN [rp |-> rp, alert |-> FALSE, loaded |-> loaded]
  ELSE LET res == preceding_render_pass_stores(rp, Head(attachments)) IN
       IF res.alert THEN [rp |-> res.rp, alert |-> TRUE, loaded |-> loaded]
       ELSE Propagate(res.rp, Tail(attachments),
                      IF res.consumed THEN loaded ELSE loaded \cup {Head(attachments)})

\* a->stores(...) >> b: RenderPassStream::operator>>.
Chain(a, b) ==
  LET stored == StoredBy(m_known_attachments[a])
      res == Propagate(RenderPassOf(b), stored, {}) IN
  /\ Building
  /\ a # b
  /\ stored # <<>>
  /\ m_prev_render_pass[b] = 0
  /\ \A q \in Passes : m_prev_render_pass[q] # a
  /\ m_prev_render_pass[a] # b
  /\ SetRenderPass(b, res.rp)
  /\ alert' = res.alert
  /\ m_prev_render_pass' = [m_prev_render_pass EXCEPT ![b] = a]
  /\ IF res.loaded # {}
       THEN /\ m_outgoing_vertices' = [m_outgoing_vertices EXCEPT ![a] = @ \cup {b}]
            /\ m_incoming_vertices' = [m_incoming_vertices EXCEPT ![b] = @ \cup {a}]
       ELSE UNCHANGED <<m_outgoing_vertices, m_incoming_vertices>>
  /\ chained' = chained \cup
       {<<a, b, x>> : x \in {y \in Attachments :
            /\ FindAttachment(stored, y, 1) # 0
            /\ FindAttachment(m_remove_or_dontcare_attachments[b], y, 1) = 0}}
  /\ UNCHANGED not_rendergraph

\* RenderPassStream::do_load_dont_cares.
DoLoadDontCares(p) ==
  LET res == do_load_dont_cares(RenderPassOf(p)) IN
  /\ Building
  /\ m_remove_or_dontcare_attachments[p] # <<>>
  /\ SetRenderPass(p, res.rp)
  /\ alert' = res.alert
  /\ UNCHANGED <<m_outgoing_vertices, m_incoming_vertices, m_prev_render_pass, chained>>
  /\ UNCHANGED not_rendergraph

NextRenderGraph ==
  \/ \E p \in Passes, x \in Attachments : OpRemoveOrDontCare(p, x)
  \/ \E p \in Passes, x \in Attachments : OpLoad(p, x)
  \/ \E p \in Passes, x \in Attachments : OpClear(p, x)
  \/ \E p \in Passes, x \in Attachments : Stores(p, x)
  \/ \E p \in Passes, x \in Attachments : StoresClear(p, x)
  \/ \E a \in Passes, b \in Passes : Chain(a, b)
  \/ \E p \in Passes : DoLoadDontCares(p)

\* ------------------------------------------------------------------------
\* RenderPass::stores_called.

\* Variant of stores_called that ignores the result of the insertion.
stores_called_unchecked(stores_called_set, render_pass) ==
  [set |-> stores_called_set \cup {render_pass}, alert |-> FALSE]

\* RenderPass::stores_called on a receiver whose m_stores_called is the given
\* set: std::set::insert, and an alert when nothing was inserted.
stores_called(stores_called_set, render_pass) ==
  [set |-> stores_called_set \cup {render_pass},
   alert |-> render_pass \in stores_called_set]

InitRegistration ==
  /\ m_stores_called = [r \in Passes |-> {}]
  /\ registrations = <<>>

\* receiver->stores_called(render_pass), once per occurrence of render_pass in
\* a stream chain.
StoresCalled(receiver, render_pass) ==
  LET res == stores_called(m_stores_called[receiver], render_pass) IN
  /\ ~alert
  /\ n_ops < MaxOps
  /\ n_ops' = n_ops + 1
  /\ m_stores_called' = [m_stores_called EXCEPT ![receiver] = res.set]
  /\ alert' = res.alert
  /\ registrations' = IF res.alert THEN registrations
                      ELSE Append(registrations, <<receiver, render_pass>>)
  /\ UNCHANGED <<cwdebug, m_known_attachments, m_remove_or_dontcare_attachments, m_next_index,
                 m_outgoing_vertices, m_incoming_vertices, m_prev_render_pass, chained>>
  /\ UNCHANGED <<fvars, wvars, uvars, cvars, xvars>>

NextRegistration ==
  \E receiver \in Passes, render_pass \in Passes : StoresCalled(receiver, render_pass)

\* ------------------------------------------------------------------------
\* PipelineCache.

Caches == 1..NumCaches
Files == {"missing", "empty", "corrupt", "valid"}

\* Variant of load_from_disk that aborts the task on an unusable file.
load_from_disk_strict(file) ==
  [data |-> IF file = "valid" THEN "loaded" ELSE "none", aborted |-> file # "valid"]

\* State PipelineCache_load_from_disk: the data that the native pipeline cache
\* is created with; a missing or unusable file gives an empty cache.
load_from_disk(file) ==
  [data |-> IF file = "valid" THEN "loaded" ELSE "empty", aborted |-> FALSE]

\* Variant of detach_pipeline_cache that leaves the handle in the task.
detach_pipeline_cache_copy(unique_handle) ==
  [handle |-> unique_handle, left |-> unique_handle]

\* PipelineCache::detach_pipeline_cache: return std::move(m_pipeline_cache);
\* the moved-from vk::UniquePipelineCache is left with a null handle.
detach_pipeline_cache(unique_handle) ==
  [handle |-> unique_handle, left |-> 0]

\* The destructor of a vk::UniquePipelineCache that holds handle.
Destroy(counts, handle) ==
  IF handle = 0 THEN counts ELSE [counts EXCEPT ![handle] = @ + 1]

RECURSIVE DestroyAll(_, _)
DestroyAll(counts, handles) ==
  IF handles = <<>> THEN counts
  ELSE DestroyAll(Destroy(counts, Head(handles)), Tail(handles))

InitCache ==
  /\ c_state = [c \in Caches |-> "none"]
  /\ m_pipeline_cache = [c \in Caches |-> 0]
  /\ m_is_merger = [c \in Caches |-> FALSE]
  /\ c_deque = [c \in Caches |-> <<>>]
  /\ c_file = [c \in Caches |-> "none"]
  /\ c_data = [h \in Caches |-> "none"]
  /\ destroyed = [h \in Caches |-> 0]

\* A step of a PipelineCache task or of the application on the caches.
CacheStep == UNCHANGED <<not_cache, fvars, wvars>>

\* The broker creates and runs the PipelineCache task; the one of the factory
\* is requested in PipelineFactory_start.
CacheRun(c) ==
  /\ CacheStep
  /\ c_state[c] = "none"
  /\ c = 1 => f_pc = "cache_requested"
  /\ c_state' = [c_state EXCEPT ![c] = "PipelineCache_initialize"]
  /\ UNCHANGED <<m_pipeline_cache, m_is_merger, c_deque, c_file, c_data, destroyed>>

\* case PipelineCache_initialize.
CacheInitialize(c) ==
  /\ CacheStep
  /\ c_state[c] = "PipelineCache_initialize"
  /\ c_state' = [c_state EXCEPT ![c] = "PipelineCache_load_from_disk"]
  /\ UNCHANGED <<m_pipeline_cache, m_is_merger, c_deque, c_file, c_data, destroyed>>

\* case PipelineCache_load_from_disk, with what is found on disk.
CacheLoadFromDisk(c, file) ==
  LET res == load_from_disk(file) IN
  /\ CacheStep
  /\ c_state[c] = "PipelineCache_load_from_disk"
  /\ c_file' = [c_file EXCEPT ![c] = file]
  /\ IF res.aborted
       THEN /\ c_state' = [c_state EXCEPT ![c] = "aborted"]
            /\ UNCHANGED <<m_pipeline_cache, c_data>>
       ELSE /\ c_state' = [c_state EXCEPT ![c] = "PipelineCache_ready"]
            /\ m_pipeline_cache' = [m_pipeline_cache EXCEPT ![c] = c]
            /\ c_data' = [c_data EXCEPT ![c] = res.data]
  /\ UNCHANGED <<m_is_merger, c_deque, destroyed>>

\* The broker calls the callback of the factory when its cache task is ready
\* (success) or was aborted.
CacheCallback ==
  /\ c_state[1] \in {"PipelineCache_ready", "aborted"}
  /\ PipelineCacheSetUp(c_state[1] = "PipelineCache_ready")

\* Application::pipeline_factory_done for the first factory that finishes:
\* set_is_merger().
FactoryDoneSetIsMerger(c) ==
  /\ CacheStep
  /\ c_state[c] = "PipelineCache_ready"
  /\ \A m \in Caches : ~m_is_merger[m]
  /\ m_is_merger' = [m_is_merger EXCEPT ![c] = TRUE]
  /\ UNCHANGED <<c_state, m_pipeline_cache, c_deque, c_file, c_data, destroyed>>

\* Application::pipeline_factory_done for a later factory: rescue the pipeline
\* cache with detach_pipeline_cache(), pass it to the merger and delete the task.
FactoryDoneDetach(c, merger) ==
  LET res == detach_pipeline_cache(m_pipeline_cache[c]) IN
  /\ CacheStep
  /\ c_state[c] = "PipelineCache_ready"
  /\ ~m_is_merger[c]
  /\ m_is_merger[merger]
  /\ c_state[merger] # "PipelineCache_done"
  /\ c_deque' = [c_deque EXCEPT ![merger] = Append(@, res.handle)]
  /\ m_pipeline_cache' = [m_pipeline_cache EXCEPT ![c] = res.left]
  /\ destroyed' = Destroy(destroyed, res.left)
  /\ c_state' = [c_state EXCEPT ![c] = "PipelineCache_done"]
  /\ UNCHANGED <<m_is_merger, c_file, c_data>>

\* case PipelineCache_ready, signalled factory_finished.
CacheFactoryFinished(c) ==
  /\ CacheStep
  /\ c_state[c] = "PipelineCache_ready"
  /\ m_is_merger[c]
  /\ c_state' = [c_state EXCEPT ![c] = "PipelineCache_factory_finished"]
  /\ UNCHANGED <<m_pipeline_cache, m_is_merger, c_deque, c_file, c_data, destroyed>>

\* case PipelineCache_factory_finished and PipelineCache_factory_merge: merge
\* every pipeline cache of the deque into m_pipeline_cache; the merged
\* vk::UniquePipelineCache objects are destructed.
CacheFactoryMerge(c) ==
  /\ CacheStep
  /\ c_state[c] = "PipelineCache_factory_finished"
  /\ c_data' = [c_data EXCEPT ![m_pipeline_cache[c]] =
                  IF \E i \in 1..Len(c_deque[c]) : c_data[c_deque[c][i]] = "loaded"
                    THEN "loaded" ELSE @]
  /\ destroyed' = DestroyAll(destroyed, c_deque[c])
  /\ c_deque' = [c_deque EXCEPT ![c] = <<>>]
  /\ c_state' = [c_state EXCEPT ![c] = "PipelineCache_save_to_disk"]
  /\ UNCHANGED <<m_pipeline_cache, m_is_merger, c_file>>

\* case PipelineCache_save_to_disk and PipelineCache_done: the task finishes
\* and is deleted, which destructs m_pipeline_cache and the deque.
CacheSaveToDisk(c) ==
  /\ CacheStep
  /\ c_state[c] = "PipelineCache_save_to_disk"
  /\ destroyed' = DestroyAll(Destroy(destroyed, m_pipeline_cache[c]), c_deque[c])
  /\ m_pipeline_cache' = [m_pipeline_cache EXCEPT ![c] = 0]
  /\ c_deque' = [c_deque EXCEPT ![c] = <<>>]
  /\ c_state' = [c_state EXCEPT ![c] = "PipelineCache_done"]
  /\ UNCHANGED <<m_is_merger, c_file, c_data>>

NextCache ==
  \/ FactoryStart
  \/ CacheCallback
  \/ FactoryInitialize
  \/ \E c \in Caches : CacheRun(c)
  \/ \E c \in Caches : CacheInitialize(c)
  \/ \E c \in Caches, file \in Files : CacheLoadFromDisk(c, file)
  \/ \E c \in Caches : FactoryDoneSetIsMerger(c)
  \/ \E c \in Caches, merger \in Caches : FactoryDoneDetach(c, merger)
  \/ \E c \in Caches : CacheFactoryFinished(c)
  \/ \E c \in Caches : CacheFactoryMerge(c)
  \/ \E c \in Caches : CacheSaveToDisk(c)

\* ------------------------------------------------------------------------
\* The derived queries of a render pass.  A node of q_known_attachments is
\* [attachment, load, clear, store, preserve, source, sink, present, kind,
\* initial_layout, final_layout]: the flags of the AttachmentNode, and of its
\* Attachment the id, the kind of its image view, the initial_layout of its
\* ImageKind and its final layout.  The queried render pass knows attachment
\* 1; the other attachments are unknown to it.  A query returns a string;
\* "alert" stands for a thrown AIAlert and "assert_failed" for a failed ASSERT.
QueryNodes ==
  [attachment : {1},
   load : BOOLEAN, clear : BOOLEAN, store : BOOLEAN, preserve : BOOLEAN,
   source : BOOLEAN, sink : BOOLEAN, present : BOOLEAN,
   kind : {"color", "depth_stencil", "depth", "stencil", "other"},
   initial_layout : {"Undefined", "ColorAttachmentOptimal"},
   final_layout : {"Undefined", "ColorAttachmentOptimal", "PresentSrcKHR"}]

\* No query was made yet.
NoCall == [fn |-> "none", attachment |-> 0, separate |-> FALSE]

\* RenderPass::get_load_op.
get_load_op(known, attachment) ==
  LET node == FindNode(known, attachment, 1) IN
  IF node = 0 THEN "NoneEXT"
  ELSE IF known[node].load THEN "Load"
  ELSE IF known[node].clear THEN "Clear"
  ELSE "DontCare"

\* RenderPass::get_optimal_layout.  ASSERT(false) is compiled in only with
\* CWDEBUG; without it the function goes on and returns eGeneral.
get_optimal_layout(node, separate_depth_stencil_layouts) ==
  IF node.kind = "color" THEN "ColorAttachmentOptimal"
  ELSE IF node.kind \in {"depth_stencil", "depth", "stencil"}
    THEN IF node.kind = "depth_stencil" \/ ~separate_depth_stencil_layouts
           THEN (IF node.preserve THEN "DepthStencilReadOnlyOptimal"
                                  ELSE "DepthStencilAttachmentOptimal")
         ELSE IF node.kind = "depth"
           THEN (IF node.preserve THEN "DepthReadOnlyOptimal" ELSE "DepthAttachmentOptimal")
         ELSE (IF node.preserve THEN "StencilReadOnlyOptimal" ELSE "StencilAttachmentOptimal")
  ELSE IF cwdebug THEN "assert_failed" ELSE "General"

\* Variant of get_initial_layout that returns the initial layout of a source
\* node without comparing it with the final layout.
get_initial_layout_unchecked(known, attachment, separate_depth_stencil_layouts) ==
  LET node == FindNode(known, attachment, 1) IN
  IF node = 0 THEN "Undefined"
  ELSE IF ~known[node].source
    THEN get_optimal_layout(known[node], separate_depth_stencil_layouts)
  ELSE known[node].initial_layout

\* RenderPass::get_initial_layout.
get_initial_layout(known, attachment, separate_depth_stencil_layouts) ==
  LET node == FindNode(known, attachment, 1) IN
  IF node = 0 THEN "Undefined"
  ELSE IF ~known[node].source
    THEN get_optimal_layout(known[node], separate_depth_stencil_layouts)
  ELSE IF /\ known[node].final_layout # "Undefined"
          /\ known[node].initial_layout # known[node].final_layout
    THEN "alert"
  ELSE known[node].initial_layout

\* Variant of get_final_layout that tests is_present before is_store.
get_final_layout_present_first(known, attachment, separate_depth_stencil_layouts) ==
  LET node == FindNode(known, attachment, 1) IN
  IF node = 0 THEN "Undefined"
  ELSE IF ~known[node].sink
    THEN get_optimal_layout(known[node], separate_depth_stencil_layouts)
  ELSE IF known[node].present THEN "PresentSrcKHR"
  ELSE IF ~known[node].store
    THEN get_optimal_layout(known[node], separate_depth_stencil_layouts)
  ELSE IF cwdebug THEN "assert_failed" ELSE "General"

\* RenderPass::get_final_layout.
get_final_layout(known, attachment, separate_depth_stencil_layouts) ==
  LET node == FindNode(known, attachment, 1) IN
  IF node = 0 THEN "Undefined"
  ELSE IF ~known[node].sink \/ ~known[node].store
    THEN get_optimal_layout(known[node], separate_depth_stencil_layouts)
  ELSE IF known[node].present THEN "PresentSrcKHR"
  ELSE IF cwdebug THEN "assert_failed" ELSE "General"

InitQuery ==
  /\ q_known_attachments = <<>>
  /\ q_call = NoCall
  /\ q_result = "none"

\* The graph was built: the render pass knows one attachment, its node has
\* the flags that the operators and the graph generation gave it.
KnownNode(node) ==
  /\ UNCHANGED not_query
  /\ q_known_attachments = <<>>
  /\ q_known_attachments' = <<node>>
  /\ q_call' = NoCall
  /\ q_result' = "none"

\* RenderPass::set_is_present_on_attachment_sink_with_id.
SetIsPresentOnAttachmentSinkWithId(id) ==
  /\ UNCHANGED not_query
  /\ q_known_attachments # <<>>
  /\ q_known_attachments' =
       [i \in DOMAIN q_known_attachments |->
          IF q_known_attachments[i].sink /\ q_known_attachments[i].attachment = id
            THEN [q_known_attachments[i] EXCEPT !.present = TRUE]
            ELSE q_known_attachments[i]]
  /\ q_call' = NoCall
  /\ q_result' = "none"

GetLoadOp(attachment) ==
  /\ UNCHANGED not_query
  /\ q_call' = [fn |-> "get_load_op", attachment |-> attachment, separate |-> FALSE]
  /\ q_result' = get_load_op(q_known_attachments, attachment)
  /\ UNCHANGED q_known_attachments

GetInitialLayout(attachment, separate) ==
  /\ UNCHANGED not_query
  /\ q_call' = [fn |-> "get_initial_layout", attachment |-> attachment, separate |-> separate]
  /\ q_result' = get_initial_layout(q_known_attachments, attachment, separate)
  /\ UNCHANGED q_known_attachments

GetFinalLayout(attachment, separate) ==
  /\ UNCHANGED not_query
  /\ q_call' = [fn |-> "get_final_layout", attachment |-> attachment, separate |-> separate]
  /\ q_result' = get_final_layout(q_known_attachments, attachment, separate)
  /\ UNCHANGED q_known_attachments

NextQuery ==
  \/ q_known_attachments = <<>> /\ \E node \in QueryNodes : KnownNode(node)
  \/ \E id \in Attachments : SetIsPresentOnAttachmentSinkWithId(id)
  \/ \E attachment \in Attachments : GetLoadOp(attachment)
  \/ \E attachment \in Attachments, separate \in BOOLEAN : GetInitialLayout(attachment, separate)
  \/ \E attachment \in Attachments, separate \in BOOLEAN : GetFinalLayout(attachment, separate)

\* ------------------------------------------------------------------------
\* RenderPass::for_all_render_passes_until.
\*
\* The traversed graph has the render passes GraphPasses; a traversal starts
\* at render pass 1, and the visitor returns true on no render pass (0), on
\* the first one, or on one of the others (render pass 2, the graphs being
\* all graphs on GraphPasses).  The state of a traversal is a record st =
\* [tid, visits, path, fuel, diverged]: m_traversal_id of every render pass,
\* the calls of the visitor so far (<<render pass, path, result>>), the path
\* vector, and the number of calls of the function that may still be made
\* (diverged is set when more are made than a graph of this size allows).
GraphPasses == {1, 2, 3, 4}
TraversalIds == {1, 2}
StopPasses == {0, 1, 2}
GraphEdges == { e \in GraphPasses \X GraphPasses : e[1] # e[2] }

\* The elements of a set of render passes in the order of iteration.
RECURSIVE VertexSeq(_)
VertexSeq(set) ==
  IF set = {} THEN <<>>
  ELSE LET first == CHOOSE v \in set : \A w \in set : v <= w IN
       <<first>> \o VertexSeq(set \ {first})

RECURSIVE for_all_render_passes_until_no_guard(_, _, _, _)
RECURSIVE for_all_render_passes_until_descends(_, _, _, _)
RECURSIVE for_all_render_passes_until_no_pop(_, _, _, _)
RECURSIVE for_all_render_passes_until(_, _, _, _)
RECURSIVE ForEachVertex(_, _, _)

\* The loops over m_outgoing_vertices and m_incoming_vertices (and the single
\* call for the subsequent render pass): the recursive call for every vertex.
ForEachVertex(st, vertices, call) ==
  IF vertices = <<>> THEN st
  ELSE ForEachVertex(for_all_render_passes_until(st, Head(vertices), FALSE, call),
                     Tail(vertices), call)

\* Variant of for_all_render_passes_until without the test of m_traversal_id.
for_all_render_passes_until_no_guard(st, this, skip_lambda, call) ==
  IF st.fuel = 0 THEN [st EXCEPT !.diverged = TRUE]
  ELSE
    LET st1 == [st EXCEPT !.fuel = @ - 1, !.tid[this] = call.id]
        result == (this = call.stop)
        st2 == IF skip_lambda THEN st1
               ELSE [st1 EXCEPT !.visits = Append(@, <<this, st1.path, result>>),
                                !.path = IF result THEN @ ELSE Append(@, this)]
        vertices == CASE call.search_type = "Subsequent" ->
                           (IF t_vertices[this].sub = 0 THEN <<>> ELSE <<t_vertices[this].sub>>)
                      [] call.search_type = "Outgoing" -> VertexSeq(t_vertices[this].out)
                      [] call.search_type = "Incoming" -> VertexSeq(t_vertices[this].inc)
        st3 == ForEachVertex(st2, vertices, call) IN
    IF ~skip_lambda /\ result THEN st2
    ELSE IF skip_lambda THEN st3
    ELSE [st3 EXCEPT !.path = SubSeq(@, 1, Len(@) - 1)]

\* Variant of for_all_render_passes_until that goes on to the vertices of a
\* render pass for which the visitor returned true.
for_all_render_passes_until_descends(st, this, skip_lambda, call) ==
  IF st.fuel = 0 THEN [st EXCEPT !.diverged = TRUE]
  ELSE IF st.tid[this] = call.id THEN [st EXCEPT !.fuel = @ - 1]
  ELSE
    LET st1 == [st EXCEPT !.fuel = @ - 1, !.tid[this] = call.id]
        result == (this = call.stop)
        st2 == IF skip_lambda THEN st1
               ELSE [st1 EXCEPT !.visits = Append(@, <<this, st1.path, result>>),
                                !.path = Append(@, this)]
        vertices == CASE call.search_type = "Subsequent" ->
                           (IF t_vertices[this].sub = 0 THEN <<>> ELSE <<t_vertices[this].sub>>)
                      [] call.search_type = "Outgoing" -> VertexSeq(t_vertices[this].out)
                      [] call.search_type = "Incoming" -> VertexSeq(t_vertices[this].inc)
        st3 == ForEachVertex(st2, vertices, call) IN
    IF skip_lambda THEN st3
    ELSE [st3 EXCEPT !.path = SubSeq(@, 1, Len(@) - 1)]

\* Variant of for_all_render_passes_until without the pop_back of the path.
for_all_render_passes_until_no_pop(st, this, skip_lambda, call) ==
  IF st.fuel = 0 THEN [st EXCEPT !.diverged = TRUE]
  ELSE IF st.tid[this] = call.id THEN [st EXCEPT !.fuel = @ - 1]
  ELSE
    LET st1 == [st EXCEPT !.fuel = @ - 1, !.tid[this] = call.id]
        result == (this = call.stop)
        st2 == IF skip_lambda THEN st1
               ELSE [st1 EXCEPT !.visits = Append(@, <<this, st1.path, result>>),
                                !.path = IF result THEN @ ELSE Append(@, this)]
        vertices == CASE call.search_type = "Subsequent" ->
                           (IF t_vertices[this].sub = 0 THEN <<>> ELSE <<t_vertices[this].sub>>)
                      [] call.search_type = "Outgoing" -> VertexSeq(t_vertices[this].out)
                      [] call.search_type = "Incoming" -> VertexSeq(t_vertices[this].inc)
        st3 == ForEachVertex(st2, vertices, call) IN
    IF ~skip_lambda /\ result THEN st2 ELSE st3

\* RenderPass::for_all_render_passes_until on render pass this; call holds
\* traversal_id (id), the visitor (it returns true on render pass stop) and
\* search_type.
for_all_render_passes_until(st, this, skip_lambda, call) ==
  IF st.fuel = 0 THEN [st EXCEPT !.diverged = TRUE]
  ELSE IF st.tid[this] = call.id THEN [st EXCEPT !.fuel = @ - 1]
  ELSE
    LET st1 == [st EXCEPT !.fuel = @ - 1, !.tid[this] = call.id]
        result == (this = call.stop)
        st2 == IF skip_lambda THEN st1
               ELSE [st1 EXCEPT !.visits = Append(@, <<this, st1.path, result>>),
                                !.path = IF result THEN @ ELSE Append(@, this)]
        vertices == CASE call.search_type = "Subsequent" ->
                           (IF t_vertices[this].sub = 0 THEN <<>> ELSE <<t_vertices[this].sub>>)
                      [] call.search_type = "Outgoing" -> VertexSeq(t_vertices[this].out)
                      [] call.search_type = "Incoming" -> VertexSeq(t_vertices[this].inc)
        st3 == ForEachVertex(st2, vertices, call) IN
    IF ~skip_lambda /\ result THEN st2
    ELSE IF skip_lambda THEN st3
    ELSE [st3 EXCEPT !.path = SubSeq(@, 1, Len(@) - 1)]

\* The number of edges that the traversals follow.
NumberOfEdges ==
  CASE t_call.search_type = "Subsequent" ->
         Cardinality({p \in GraphPasses : t_vertices[p].sub # 0})
    [] t_call.search_type = "Outgoing" ->
         Cardinality({e \in GraphEdges : e[2] \in t_vertices[e[1]].out})
    [] t_call.search_type = "Incoming" ->
         Cardinality({e \in GraphEdges : e[2] \in t_vertices[e[1]].inc})

InitTraversal ==
  /\ t_vertices = [p \in GraphPasses |-> [out |-> {}, inc |-> {}, sub |-> 0]]
  /\ t_call = [built |-> FALSE, search_type |-> "Subsequent", skip_lambda |-> FALSE, stop |-> 0]
  /\ m_traversal_id = [p \in GraphPasses |-> 0]
  /\ t_last = [id |-> 0, fresh |-> FALSE, visits |-> <<>>, path |-> <<>>, diverged |-> FALSE]

\* The graph was built with the edges of the set edges: m_outgoing_vertices
\* and m_incoming_vertices mirror each other.
BuildGraph(edges, search_type, skip_lambda, stop) ==
  /\ UNCHANGED not_traversal
  /\ ~t_call.built
  /\ Cardinality(edges) <= MaxEdges
  /\ t_vertices' = [p \in GraphPasses |->
                      [out |-> {q \in GraphPasses : <<p, q>> \in edges},
                       inc |-> {q \in GraphPasses : <<q, p>> \in edges},
                       sub |-> 0]]
  /\ t_call' = [built |-> TRUE, search_type |-> search_type, skip_lambda |-> skip_lambda,
                stop |-> stop]
  /\ UNCHANGED <<m_traversal_id, t_last>>

\* The render passes were chained with >>: subsequent gives the subsequent
\* render pass of every render pass (0: none).
BuildStream(subsequent, skip_lambda, stop) ==
  /\ UNCHANGED not_traversal
  /\ ~t_call.built
  /\ \A p \in GraphPasses : subsequent[p] # p
  /\ Cardinality({p \in GraphPasses : subsequent[p] # 0}) <= MaxEdges
  /\ t_vertices' = [p \in GraphPasses |-> [out |-> {}, inc |-> {}, sub |-> subsequent[p]]]
  /\ t_call' = [built |-> TRUE, search_type |-> "Subsequent", skip_lambda |-> skip_lambda,
                stop |-> stop]
  /\ UNCHANGED <<m_traversal_id, t_last>>

\* A top-level call of for_all_render_passes_until on render pass 1 with an
\* empty path vector.
Traverse(traversal_id) ==
  LET st == [tid |-> m_traversal_id, visits |-> <<>>, path |-> <<>>,
             fuel |-> NumberOfEdges + 1, diverged |-> FALSE]
      call == [id |-> traversal_id, search_type |-> t_call.search_type, stop |-> t_call.stop]
      res == for_all_render_passes_until(st, 1, t_call.skip_lambda, call) IN
  /\ UNCHANGED not_traversal
  /\ t_call.built
  /\ m_traversal_id' = res.tid
  /\ t_last' = [id |-> traversal_id,
                fresh |-> \A p \in GraphPasses : m_traversal_id[p] # traversal_id,
                visits |-> res.visits, path |-> res.path, diverged |-> res.diverged]
  /\ UNCHANGED <<t_vertices, t_call>>

NextTraversal ==
  \/ ~t_call.built /\
       \E edges \in SUBSET GraphEdges, search_type \in {"Outgoing", "Incoming"},
          skip_lambda \in BOOLEAN, stop \in StopPasses :
         BuildGraph(edges, search_type, skip_lambda, stop)
  \/ ~t_call.built /\
       \E subsequent \in [GraphPasses -> GraphPasses \cup {0}],
          skip_lambda \in BOOLEAN, stop \in StopPasses :
         BuildStream(subsequent, skip_lambda, stop)
  \/ \E traversal_id \in TraversalIds : Traverse(traversal_id)

\* ------------------------------------------------------------------------
\* vulkan::Application: the list of windows.  m_window_list is locked for
\* the whole of add and of remove, which therefore are atomic.

\* Variant of Application::add that never sets m_window_created.
add_without_created(app, window_task) ==
  IF app.m_window_created /\ app.m_window_list = <<>>
    THEN [app EXCEPT !.alert = TRUE]
    ELSE [app EXCEPT !.alert = FALSE, !.m_window_list = Append(@, window_task)]

\* Application::add on app = [m_window_list, m_window_created, alert].
add(app, window_task) ==
  IF app.m_window_created /\ app.m_window_list = <<>>
    THEN [app EXCEPT !.alert = TRUE]
    ELSE [app EXCEPT !.alert = FALSE, !.m_window_created = TRUE,
                     !.m_window_list = Append(@, window_task)]

\* Variant of Application::remove that erases the first entry only.
RECURSIVE remove_first(_, _)
remove_first(window_list, window_task) ==
  IF window_list = <<>> THEN <<>>
  ELSE IF Head(window_list) = window_task THEN Tail(window_list)
  ELSE <<Head(window_list)>> \o remove_first(Tail(window_list), window_task)

\* Application::remove: std::remove_if followed by erase.
RECURSIVE remove(_, _)
remove(window_list, window_task) ==
  IF window_list = <<>> THEN <<>>
  ELSE IF Head(window_list) = window_task THEN remove(Tail(window_list), window_task)
  ELSE <<Head(window_list)>> \o remove(Tail(window_list), window_task)

InitApplication ==
  /\ m_window_list = <<>>
  /\ m_window_created = FALSE
  /\ a_alert = FALSE
  /\ a_adds = 0
  /\ a_ops = 0

ApplicationAdd(window_task) ==
  LET res == add([m_window_list |-> m_window_list, m_window_created |-> m_window_created,
                  alert |-> FALSE], window_task) IN
  /\ a_ops < MaxWindowOps
  /\ a_ops' = a_ops + 1
  /\ m_window_list' = res.m_window_list
  /\ m_window_created' = res.m_window_created
  /\ a_alert' = res.alert
  /\ a_adds' = IF res.alert THEN a_adds ELSE a_adds + 1
  /\ UNCHANGED not_application

ApplicationRemove(window_task) ==
  /\ a_ops < MaxWindowOps
  /\ a_ops' = a_ops + 1
  /\ m_window_list' = remove(m_window_list, window_task)
  /\ UNCHANGED <<m_window_created, a_alert, a_adds>>
  /\ UNCHANGED not_application

NextApplication ==
  \/ \E window_task \in Windows : ApplicationAdd(window_task)
  \/ \E window_task \in Windows : ApplicationRemove(window_task)

\* ------------------------------------------------------------------------
\* pipeline::FlatCreateInfo: the vectors of colour blend attachment states
\* that the characteristics add, merged by the getter that the factory calls
\* once per pipeline.

StateCounts == {0, 1, 2}

RECURSIVE SumSizes(_)
SumSizes(list) == IF list = <<>> THEN 0 ELSE Head(list) + SumSizes(Tail(list))

\* FlatCreateInfo::merge: the size of the merged vector, or the failure of
\* its ASSERT on a vector that was never filled.
merge(input_list) ==
  IF cwdebug /\ \E i \in 1..Len(input_list) : input_list[i] = 0
    THEN [failed |-> TRUE, size |-> 0]
    ELSE [failed |-> FALSE, size |-> SumSizes(input_list)]

\* FlatCreateInfo::get_pipeline_color_blend_attachment_states on the given
\* list and m_color_blend_state_create_info (info).
get_pipeline_color_blend_attachment_states(list, info) ==
  LET merged == merge(list) IN
  IF merged.failed THEN [info |-> info, result |-> "assert_failed_in_merge"]
  ELSE IF cwdebug /\ ~(info.attachmentCount = 0 /\ info.pAttachments = "null")
    THEN [info |-> info, result |-> "assert_failed"]
  ELSE [info |-> [attachmentCount |-> merged.size,
                  pAttachments |-> IF merged.size = 0 THEN "null" ELSE "set"],
        result |-> "returned"]

InitFlat ==
  /\ m_pipeline_color_blend_attachment_states_list = <<>>
  /\ m_color_blend_state_create_info = [attachmentCount |-> 0, pAttachments |-> "null"]
  /\ k_result = "none"
  /\ k_ops = 0

\* A failed ASSERT aborts the program.
FlatRunning ==
  /\ k_result \notin {"assert_failed", "assert_failed_in_merge"}
  /\ k_ops < MaxFlatOps
  /\ k_ops' = k_ops + 1

\* FlatCreateInfo::add(std::vector<vk::PipelineColorBlendAttachmentState> const*),
\* called by a characteristic; size is the number of states in the vector
\* by the time the pipelines are created.
FlatAdd(size) ==
  /\ FlatRunning
  /\ m_pipeline_color_blend_attachment_states_list' =
       Append(m_pipeline_color_blend_attachment_states_list, size)
  /\ UNCHANGED <<m_color_blend_state_create_info, k_result>>
  /\ UNCHANGED not_flat

\* The call in the inner loop body of PipelineFactory_generate.
FlatGet ==
  LET res == get_pipeline_color_blend_attachment_states(
               m_pipeline_color_blend_attachment_states_list, m_color_blend_state_create_info) IN
  /\ FlatRunning
  /\ m_color_blend_state_create_info' = res.info
  /\ k_result' = res.result
  /\ UNCHANGED m_pipeline_color_blend_attachment_states_list
  /\ UNCHANGED not_flat

NextFlat ==
  \/ \E size \in StateCounts : FlatAdd(size)
  \/ FlatGet

\* ------------------------------------------------------------------------
\* memory::Image.  A store st = [images, calls] holds the objects and the
\* number of calls of LogicalDevice::destroy_image per handle; the member
\* functions work on the store, so that this and rhs may be the same object.

ImageIds == 1..NumImages
ImageHandles == 1..NumHandles
VK_NULL_HANDLE == 0

\* Image::destroy on object this.
destroy(st, this) ==
  LET h == st.images[this].m_vh_image
      st1 == IF h # VK_NULL_HANDLE THEN [st EXCEPT !.calls[h] = @ + 1] ELSE st IN
  [st1 EXCEPT !.images[this].m_vh_image = VK_NULL_HANDLE]

\* Variant of Image(Image&&) that leaves the handle in rhs.
Image_move_keeps_rhs(st, this, rhs) ==
  [st EXCEPT !.images[this] = [alive |-> TRUE, m_vh_image |-> st.images[rhs].m_vh_image]]

\* Image::Image(Image&& rhs): construct object this from rhs.
Image_move(st, this, rhs) ==
  LET st1 == [st EXCEPT !.images[this] =
                [alive |-> TRUE, m_vh_image |-> st.images[rhs].m_vh_image]] IN
  [st1 EXCEPT !.images[rhs].m_vh_image = VK_NULL_HANDLE]

\* Variant of operator=(Image&&) without the call of destroy.
operator_assign_no_destroy(st, this, rhs) ==
  LET st2 == [st EXCEPT !.images[this].m_vh_image = st.images[rhs].m_vh_image] IN
  [st2 EXCEPT !.images[rhs].m_vh_image = VK_NULL_HANDLE]

\* Image::operator=(Image&& rhs) on object this.
operator_assign(st, this, rhs) ==
  LET st1 == destroy(st, this)
      st2 == [st1 EXCEPT !.images[this].m_vh_image = st1.images[rhs].m_vh_image] IN
  [st2 EXCEPT !.images[rhs].m_vh_image = VK_NULL_HANDLE]

\* Image::~Image on object this.
Image_destructor(st, this) ==
  [destroy(st, this) EXCEPT !.images[this].alive = FALSE]

InitImage ==
  /\ images = [i \in ImageIds |-> [alive |-> FALSE, m_vh_image |-> VK_NULL_HANDLE]]
  /\ destroy_image_calls = [h \in ImageHandles |-> 0]
  /\ next_image_handle = 1

ImageStore == [images |-> images, calls |-> destroy_image_calls]

SetImageStore(st) ==
  /\ images' = st.images
  /\ destroy_image_calls' = st.calls
  /\ UNCHANGED not_image

\* Image(): object this comes into being without an image.
ImageDefault(this) ==
  /\ ~images[this].alive
  /\ images' = [images EXCEPT ![this] = [alive |-> TRUE, m_vh_image |-> VK_NULL_HANDLE]]
  /\ UNCHANGED <<destroy_image_calls, next_image_handle>>
  /\ UNCHANGED not_image

\* Image(logical_device, extent, ...): object this comes into being with an
\* image that the device has just created.
ImageCreate(this) ==
  /\ ~images[this].alive
  /\ next_image_handle <= NumHandles
  /\ images' = [images EXCEPT ![this] = [alive |-> TRUE, m_vh_image |-> next_image_handle]]
  /\ next_image_handle' = next_image_handle + 1
  /\ UNCHANGED destroy_image_calls
  /\ UNCHANGED not_image

ImageMoveConstruct(this, rhs) ==
  /\ ~images[this].alive
  /\ images[rhs].alive
  /\ SetImageStore(Image_move(ImageStore, this, rhs))
  /\ UNCHANGED next_image_handle

ImageMoveAssign(this, rhs) ==
  /\ images[this].alive
  /\ images[rhs].alive
  /\ SetImageStore(operator_assign(ImageStore, this, rhs))
  /\ UNCHANGED next_image_handle

ImageDestruct(this) ==
  /\ images[this].alive
  /\ SetImageStore(Image_destructor(ImageStore, this))
  /\ UNCHANGED next_image_handle

NextImage ==
  \/ \E this \in ImageIds : ImageDefault(this)
  \/ \E this \in ImageIds : ImageCreate(this)
  \/ \E this \in ImageIds, rhs \in ImageIds : ImageMoveConstruct(this, rhs)
  \/ \E this \in ImageIds, rhs \in ImageIds : ImageMoveAssign(this, rhs)
  \/ \E this \in ImageIds : ImageDestruct(this)

\* ------------------------------------------------------------------------
Init ==
  /\ InitFactory /\ InitUpdater /\ InitRenderGraph /\ InitRegistration /\ InitCache
  /\ InitQuery /\ InitTraversal /\ InitApplication /\ InitFlat /\ InitImage

Next ==
  \/ \E ch \in CharacteristicRanges : Add(ch)
  \/ UserGenerate
  \/ FactoryStart
  \/ \E success \in BOOLEAN : PipelineCacheSetUp(success)
  \/ FactoryInitialize
  \/ FactoryInitialized
  \/ FactoryGenerate
  \/ FactorySignalNew
  \/ FactoryDone
  \/ WatcherStart
  \/ WatcherLock
  \/ WatcherForward
  \/ WatcherTest
  \/ WatcherWait

Spec == Init /\ [][Next]_vars

\* Fair scheduling: a runnable watcher is run again by the window's main
\* loop, and the factory thread that is inside terminate() goes on to its
\* signal(need_action) and finish().
WatcherFairness ==
  /\ WF_vars(WatcherStart)
  /\ WF_vars(WatcherLock)
  /\ WF_vars(WatcherForward)
  /\ WF_vars(WatcherTest)
  /\ WF_vars(WatcherWait)
  /\ WF_vars(FactoryDone)

SpecFair == Init /\ [][Next]_vars /\ WatcherFairness

SpecUpdater == Init /\ [][NextUpdater]_vars

SpecRenderGraph == Init /\ [][NextRenderGraph]_vars

SpecRegistration == Init /\ [][NextRegistration]_vars

SpecCache == Init /\ [][NextCache]_vars

SpecQuery == Init /\ [][NextQuery]_vars

SpecTraversal == Init /\ [][NextTraversal]_vars

SpecApplication == Init /\ [][NextApplication]_vars

SpecFlat == Init /\ [][NextFlat]_vars

SpecImage == Init /\ [][NextImage]_vars

\* ------------------------------------------------------------------------
\* Reference definitions for the factory claims.

RECURSIVE Product(_, _)
Product(chars, i) ==
  IF i > Len(chars) THEN 1 ELSE (iend(chars[i]) - ibegin(chars[i])) * Product(chars, i + 1)

\* n1 * n2 * ... * nk.
NumberOfPipelines == Product(m_characteristics, 1)

RECURSIVE Concat(_)
Concat(ss) == IF ss = <<>> THEN <<>> ELSE Head(ss) \o Concat(Tail(ss))

\* The counter vectors visited by N nested for loops, loop i running over
\* [ibegin, iend) of characteristic i, characteristic 1 outermost.
RECURSIVE NestedLoops(_, _)
NestedLoops(chars, i) ==
  IF i > Len(chars) THEN << <<>> >>
  ELSE LET inner == NestedLoops(chars, i + 1)
           size == iend(chars[i]) - ibegin(chars[i]) IN
       Concat([k \in 1..size |->
                 [j \in 1..Len(inner) |-> <<ibegin(chars[i]) + k - 1>> \o inner[j]]])

\* The handles the factory has passed to have_new_pipeline, in order.
Pushed == [i \in 1..Len(created) |-> created[i][2]]

\* C1: every handle passed to have_new_pipeline before terminate() has been
\* forwarded to new_pipeline exactly once, in order, when the watcher has
\* finished, and the watcher does not finish with a non-empty queue.
C1_NoHandleDropped ==
  w_run = "finished" => (m_new_pipelines = <<>> /\ forwarded = Pushed)

\* C2: for characteristics of sizes n1..nk (k >= 1): when
\* PipelineFactory_generate has completed, exactly n1*...*nk pipelines
\* were created and every pipeline::Index in [0, n1*...*nk) was produced
\* exactly once.
C2_EveryIndexOnce ==
  (Len(m_characteristics) >= 1 /\ f_state = "PipelineFactory_done") =>
    /\ Len(created) = NumberOfPipelines
    /\ \A idx \in 0..(NumberOfPipelines - 1) :
         Cardinality({i \in 1..Len(created) : created[i][2] = idx}) = 1
    /\ \A i \in 1..Len(created) : created[i][2] \in 0..(NumberOfPipelines - 1)
    /\ \A i \in DOMAIN m_graphics_pipelines : m_graphics_pipelines[i] = 1

C2_Witness ==
  /\ f_state = "PipelineFactory_done"
  /\ Len(m_characteristics) = 2
  /\ NumberOfPipelines = 4
  /\ Len(created) = 4

\* C3: after any number of yields, the counter combinations at which pipelines
\* were created are the first ones of the nested loops run without yield, in
\* the same order; and a completed run has produced all of them.
C3_YieldEquivalent ==
  Len(m_characteristics) >= 1 =>
    LET reference == NestedLoops(m_characteristics, 1) IN
    /\ Len(created) <= Len(reference)
    /\ \A i \in 1..Len(created) :
         /\ created[i][1] = reference[i]
         /\ created[i][2] = PipelineIndexOf(m_characteristics, reference[i])
    /\ f_state = "PipelineFactory_done" => Len(created) = Len(reference)

C3_Witness ==
  /\ f_state = "PipelineFactory_generate"
  /\ f_pc = "signal_new"
  /\ f_turns >= 2
  /\ Len(m_characteristics) = 2
  /\ Len(created) = 3
  /\ created[3][1][1] # created[2][1][1]

\* C4: have_new_pipeline is called exactly N = n1*...*nk times, and the
\* factory is in PipelineFactory_done (calling terminate() and finishing) only
\* when all N notifications have been handed to the watcher.
C4_NotifiedBeforeDone ==
  /\ Len(m_characteristics) >= 1 => notified <= NumberOfPipelines
  /\ notified = Len(m_new_pipelines) + Len(forwarded) + (IF w_pc = "forward" THEN 1 ELSE 0)
  /\ (Len(m_characteristics) >= 1 /\ (f_state = "PipelineFactory_done" \/ m_parent_finished)) =>
       notified = NumberOfPipelines

C4_Witness ==
  /\ f_run = "finished"
  /\ f_state = "PipelineFactory_done"
  /\ m_parent_finished
  /\ notified = 4
  /\ Len(m_new_pipelines) >= 1

\* ------------------------------------------------------------------------
\* Claims about CombinedImageSamplerUpdater.

Overlap(e1, e2) == e1.b < e2.e /\ e2.b < e1.e

NonOverlapping(seq) ==
  \A i, j \in 1..Len(seq) : (i < j /\ seq[i].id = seq[j].id) => ~Overlap(seq[i], seq[j])

SortedByIdAndBegin(seq) ==
  \A i, j \in 1..Len(seq) :
    i < j => (seq[i].id < seq[j].id \/ (seq[i].id = seq[j].id /\ seq[i].b < seq[j].b))

\* C5: in each of the two containers the subranges stored for the same
\* FactoryCharacteristicId are pairwise non-overlapping.
C5_SubrangesDisjoint ==
  /\ NonOverlapping(m_key_to_descriptor)
  /\ NonOverlapping(m_key_to_texture)

\* C6: both containers are sorted by (id, subrange.begin).
C6_SortedContainers ==
  /\ SortedByIdAndBegin(m_key_to_descriptor)
  /\ SortedByIdAndBegin(m_key_to_texture)

\* C7: two adjacent subranges [a,b) and [b,c) of one id with the same target
\* are never left as two entries: they are one entry [a,c).
C7_AdjacentMerged ==
  /\ \A i, j \in 1..Len(m_key_to_descriptor) :
       ~(/\ m_key_to_descriptor[i].id = m_key_to_descriptor[j].id
         /\ m_key_to_descriptor[i].target = m_key_to_descriptor[j].target
         /\ m_key_to_descriptor[i].e = m_key_to_descriptor[j].b)
  /\ \A i, j \in 1..Len(m_key_to_texture) :
       ~(/\ m_key_to_texture[i].id = m_key_to_texture[j].id
         /\ m_key_to_texture[i].tex = m_key_to_texture[j].tex
         /\ m_key_to_texture[i].e = m_key_to_texture[j].b)

\* C8: after a TextureUpdateRequest that overlapped an entry of its id holding
\* a different texture, every texture entry overlapping the request holds the
\* new texture and every descriptor matching the key was last updated with it.
C8_TextureReplaced ==
  (last_update.kind = "texture" /\ last_update.replaces) =>
    /\ \A i \in 1..Len(m_key_to_texture) :
         KeyEq(m_key_to_texture[i], last_update) => m_key_to_texture[i].tex = last_update.tex
    /\ \A i \in 1..Len(m_key_to_descriptor) :
         KeyEq(m_key_to_descriptor[i], last_update) =>
           bound[m_key_to_descriptor[i].target] = last_update.tex


\* ------------------------------------------------------------------------
\* Render graph claims.

\* The node of attachment x in render pass p has the load flag.
IsLoad(p, x) ==
  LET i == FindNode(m_known_attachments[p], x, 1) IN
  i # 0 /\ m_known_attachments[p][i].load

NoClearAndLoad ==
  \A p \in Passes : \A i \in 1..Len(m_known_attachments[p]) :
    ~(m_known_attachments[p][i].clear /\ m_known_attachments[p][i].load)

\* C9: for every chain a->stores(x) >> b that was built where x was not marked
\* don't-care on b, the node of b for x is a load and the graph has the edge
\* a -> b (outgoing of a, incoming of b).
C9_ChainLoadsAndLinks ==
  ~alert => \A t \in chained :
              /\ IsLoad(t[2], t[3])
              /\ t[2] \in m_outgoing_vertices[t[1]]
              /\ t[1] \in m_incoming_vertices[t[2]]

\* A chain was built into a render pass that itself stores the attachment.
C9_Witness ==
  /\ ~alert
  /\ \E t \in chained :
       LET i == FindNode(m_known_attachments[t[2]], t[3], 1) IN
       /\ i # 0
       /\ m_known_attachments[t[2]][i].store
       /\ m_known_attachments[t[2]][i].load

RECURSIVE Registered(_, _, _)
Registered(log, receiver, render_pass) ==
  IF log = <<>> THEN 0
  ELSE (IF Head(log) = <<receiver, render_pass>> THEN 1 ELSE 0)
       + Registered(Tail(log), receiver, render_pass)

\* C11: a render pass is recorded by a receiver exactly when it was registered
\* there, no registration of the same render pass succeeded twice, and
\* stores_called with a render pass that is already recorded throws the alert.
C11_RegisteredOnce ==
  /\ [](\A r \in Passes, p \in Passes :
          /\ Registered(registrations, r, p) <= 1
          /\ (p \in m_stores_called[r]) <=> (Registered(registrations, r, p) = 1))
  /\ [][\A r \in Passes, p \in Passes :
          (p \in m_stores_called[r] /\ StoresCalled(r, p)) => alert']_vars

\* A render pass was registered twice with the same receiver: an alert.
C11_Witness ==
  /\ alert
  /\ n_ops = 3
  /\ Len(registrations) = 2
  /\ registrations[1][1] = registrations[2][1]


\* ------------------------------------------------------------------------
\* Claims about removed attachments and about stores(~X).

\* C12: the remove/don't-care list of a render pass never contains the same
\* attachment twice (removing an attachment a second time fails).
C12_NoDoubleRemoval ==
  \A p \in Passes :
    \A i, j \in 1..Len(m_remove_or_dontcare_attachments[p]) :
      i # j => m_remove_or_dontcare_attachments[p][i] # m_remove_or_dontcare_attachments[p][j]

\* C13: no attachment is both known to a render pass and in its
\* remove/don't-care list.
C13_KnownRemovedDisjoint ==
  \A p \in Passes, x \in Attachments :
    ~(/\ FindNode(m_known_attachments[p], x, 1) # 0
      /\ FindAttachment(m_remove_or_dontcare_attachments[p], x, 1) # 0)

\* The node of attachment x in render pass p has the clear and the store flag.
IsClearAndStore(known, x) ==
  LET i == FindNode(known, x, 1) IN
  i # 0 /\ known[i].clear /\ known[i].store

\* C14: after pass->stores(~x) returned without an alert the node of x in
\* that render pass has the clear flag and the store flag.  (A step of
\* stores(~x) on render pass p leaves the nodes of every other render pass as
\* they are, so a step that changes them is not such a step; that is tested
\* first to tell early which render pass a step was applied to.)
C14_StoresClearSetsBoth ==
  [][\A p \in Passes :
       (~alert' /\ \A q \in Passes \ {p} : m_known_attachments'[q] = m_known_attachments[q]) =>
         \A x \in Attachments :
           StoresClear(p, x) => IsClearAndStore(m_known_attachments'[p], x)]_vars

\* stores(~x) was applied to a render pass that already had a node for x.
C14_Witness ==
  /\ ~alert
  /\ n_ops = 2
  /\ \E p \in Passes, x \in Attachments :
       /\ Len(m_known_attachments[p]) = 1
       /\ IsClearAndStore(m_known_attachments[p], x)
       /\ \A q \in Passes \ {p} : m_known_attachments[q] = <<>>
       /\ \A q \in Passes : m_remove_or_dontcare_attachments[q] = <<>>


\* ------------------------------------------------------------------------
\* PipelineCache claims.

BadFiles == {"missing", "empty", "corrupt"}

RECURSIVE CountIn(_, _)
CountIn(handles, handle) ==
  IF handles = <<>> THEN 0
  ELSE (IF Head(handles) = handle THEN 1 ELSE 0) + CountIn(Tail(handles), handle)

RECURSIVE Owners(_, _)
Owners(handle, c) ==
  IF c = 0 THEN 0
  ELSE (IF m_pipeline_cache[c] = handle THEN 1 ELSE 0)
       + CountIn(c_deque[c], handle) + Owners(handle, c - 1)

\* C16: every native pipeline cache handle is held by at most one
\* vk::UniquePipelineCache (the m_pipeline_cache of a task or an element of a
\* merger's deque), is destroyed at most once and is no longer held once it is
\* destroyed (as a merged or a detached pipeline cache is).
C16_SingleOwner ==
  \A h \in Caches :
    /\ Owners(h, NumCaches) <= 1
    /\ destroyed[h] <= 1
    /\ destroyed[h] = 1 => Owners(h, NumCaches) = 0

\* A detached pipeline cache was merged into the merger and destroyed once.
C16_Witness ==
  \E c \in Caches, merger \in Caches :
    /\ c # merger
    /\ c_state[merger] = "PipelineCache_save_to_disk"
    /\ m_pipeline_cache[merger] = merger
    /\ c_state[c] = "PipelineCache_done"
    /\ m_pipeline_cache[c] = 0
    /\ destroyed[c] = 1
    /\ destroyed[merger] = 0


\* ------------------------------------------------------------------------
\* Claims about the states of the factory.

\* C17: when the callback of the broker is called with success == false the
\* factory is not signalled pipeline_cache_set_up: it neither wakes up to run
\* PipelineFactory_initialize nor remembers the signal.
C17_FailureDetected ==
  [][PipelineCacheSetUp(FALSE) =>
       /\ f_run' # "runnable"
       /\ "pipeline_cache_set_up" \notin f_skip_wait']_vars

StateOrder(state) ==
  CASE state = "PipelineFactory_start" -> 0
    [] state = "PipelineFactory_initialize" -> 1
    [] state = "PipelineFactory_initialized" -> 2
    [] state = "PipelineFactory_generate" -> 3
    [] state = "PipelineFactory_done" -> 4

\* C18: the factory never goes back to an earlier state; PipelineFactory_initialize
\* runs only after pipeline_cache_set_up was signalled; and
\* PipelineFactory_initialized runs (the watcher exists, a pipeline was
\* created, generate or done was reached) only after fully_initialized was
\* signalled.
C18_StatesInOrder ==
  /\ [][StateOrder(f_state') >= StateOrder(f_state)]_vars
  /\ [][FactoryInitialize => "pipeline_cache_set_up" \in signalled]_vars
  /\ [][FactoryInitialized => "fully_initialized" \in signalled]_vars
  /\ [](StateOrder(f_state) >= 2 => "pipeline_cache_set_up" \in signalled)
  /\ []((\/ w_state # "none"
         \/ created # <<>>
         \/ StateOrder(f_state) >= 3) => "fully_initialized" \in signalled)

\* The factory was signalled both conditions and went through all its states.
C18_Witness ==
  /\ f_state = "PipelineFactory_done"
  /\ f_run = "finished"
  /\ Len(m_characteristics) = 2
  /\ Len(created) = NumberOfPipelines
  /\ signalled = {"pipeline_cache_set_up", "fully_initialized"}

\* C19: a factory that ran PipelineFactory_initialized without any
\* characteristic has failed there: no pipeline, no notification, and neither
\* PipelineFactory_generate nor PipelineFactory_done is reached.
C19_EmptyFactoryFails ==
  (Len(m_characteristics) = 0 /\ w_state # "none") =>
    /\ f_run \in {"assert_failed", "crashed"}
    /\ f_state = "PipelineFactory_initialized"
    /\ created = <<>>
    /\ notified = 0

\* C20: every pipeline but the one of the current execution turn was followed
\* by a yield: the number of created pipelines is the number of yields, plus
\* one while the turn that created a pipeline has not yet yielded.
C20_OnePipelinePerTurn ==
  Len(created) = f_turns +
    (IF f_state = "PipelineFactory_generate" /\ f_pc = "signal_new" THEN 1 ELSE 0)

\* The factory was rescheduled twice and is in its third turn of generate.
C20_Witness ==
  /\ f_state = "PipelineFactory_generate"
  /\ f_pc = "signal_new"
  /\ f_turns = 2
  /\ Len(created) = 3

\* ------------------------------------------------------------------------
\* lhs comes before rhs in lexicographic order, position 1 most significant.
LexLess(lhs, rhs) ==
  \E k \in 1..Len(lhs) :
    /\ \A j \in 1..(k - 1) : lhs[j] = rhs[j]
    /\ lhs[k] < rhs[k]

C22_MaxIndexSizesStorage ==
  (Len(m_characteristics) >= 1 /\
   f_state \in {"PipelineFactory_generate", "PipelineFactory_done"}) =>
    /\ MaxPipelineIndex(m_characteristics) = NumberOfPipelines - 1
    /\ Len(m_graphics_pipelines) = NumberOfPipelines
    /\ \A i \in 1..Len(created) :
         /\ 0 <= created[i][2]
         /\ created[i][2] < Len(m_graphics_pipelines)
         /\ m_graphics_pipelines[created[i][2] + 1] = 1

C22_Witness ==
  /\ f_state = "PipelineFactory_generate"
  /\ Len(m_characteristics) = 2
  /\ NumberOfPipelines = 4
  /\ Len(m_graphics_pipelines) = 4
  /\ Len(created) = 3
  /\ created[3][2] = 2
  /\ m_graphics_pipelines[4] = 0

\* ------------------------------------------------------------------------
\* The signals of need_action that the factory has announced (by pushing a
\* handle or setting m_parent_finished) but not yet sent.
SignalOutstanding ==
  \/ f_state = "PipelineFactory_generate" /\ f_pc = "signal_new"
  \/ f_state = "PipelineFactory_done" /\ f_pc = "signal_terminate"

\* C23: the watcher does not finish before terminate() has been called;
\* when it has drained its queue and the parent has not signalled
\* termination it goes to wait(need_action) instead of finishing; and it is
\* woken by every later have_new_pipeline or terminate: it is never left
\* suspended after such a signal, nor suspended with a handle in the queue or
\* with m_parent_finished set unless the signal for it is still to come.
C23_WatcherWaitsForTerminate ==
  /\ [](w_run = "finished" => m_parent_finished)
  /\ []((w_run = "waiting" /\ (m_new_pipelines # <<>> \/ m_parent_finished)) =>
          SignalOutstanding)
  /\ [][(WatcherTest /\ ~m_parent_finished) =>
          (w_pc' = "wait" /\ w_run' = "runnable" /\
           w_state' = "PipelineFactoryWatcher_need_action")]_vars
  /\ [][(WatcherWait /\ ~w_skip_wait) => w_run' = "waiting"]_vars
  /\ [][(FactorySignalNew \/ FactoryDone) => w_run' # "waiting"]_vars

C23_Witness ==
  /\ w_run = "waiting"
  /\ w_state = "PipelineFactoryWatcher_need_action"
  /\ Len(forwarded) >= 1
  /\ m_new_pipelines = <<>>
  /\ ~m_parent_finished
  /\ f_state = "PipelineFactory_generate"

\* C24: under fair scheduling, once the factory has called terminate() (it
\* has set m_parent_finished) the watcher eventually is in
\* PipelineFactoryWatcher_done and has finished, whatever the interleaving
\* of the signals with the watcher's wait.
C24_WatcherEventuallyFinishes ==
  m_parent_finished ~> (w_state = "PipelineFactoryWatcher_done" /\ w_run = "finished")

\* The watcher has finished although the last signal reached it while it was
\* not waiting.
C24_Witness ==
  /\ w_state = "PipelineFactoryWatcher_done"
  /\ w_run = "finished"
  /\ f_run = "finished"
  /\ m_parent_finished
  /\ w_skip_wait

\* ------------------------------------------------------------------------
\* The node of the queried attachment, for a query of a known attachment.
QueriedKnown == FindNode(q_known_attachments, q_call.attachment, 1) # 0
QueriedNode == q_known_attachments[FindNode(q_known_attachments, q_call.attachment, 1)]

\* C25: get_load_op returns "none" for an attachment unknown to the pass;
\* for a known attachment Clear if the clear flag of the node is set, else
\* Load if its load flag is set, else DontCare: Clear wins when both are set.
C25_ClearBeforeLoad ==
  q_call.fn = "get_load_op" =>
    q_result = (IF ~QueriedKnown THEN "NoneEXT"
                ELSE IF QueriedNode.clear THEN "Clear"
                ELSE IF QueriedNode.load THEN "Load"
                ELSE "DontCare")

\* C26 as stated: get_final_layout on a sink node returns PresentSrcKHR if
\* the node is marked present, and for a sink node that is not marked
\* present and does not store it fails an assertion instead of returning a
\* layout.
C26_SinkPresentOrAssert ==
  (q_call.fn = "get_final_layout" /\ QueriedKnown /\ QueriedNode.sink) =>
    /\ QueriedNode.present => q_result = "PresentSrcKHR"
    /\ (~QueriedNode.present /\ ~QueriedNode.store) => q_result = "assert_failed"

\* C26, amended: get_final_layout on a sink node that stores returns
\* PresentSrcKHR if the node is marked present, and for a sink node that
\* stores and is not marked present it fails an assertion (in a build
\* without assertions it returns General); for a sink node that does not
\* store, marked present or not, it returns the optimal layout of the node.
C26_StoringSinkPresentOrAssert ==
  (q_call.fn = "get_final_layout" /\ QueriedKnown /\ QueriedNode.sink) =>
    /\ (QueriedNode.store /\ QueriedNode.present) => q_result = "PresentSrcKHR"
    /\ (QueriedNode.store /\ ~QueriedNode.present) =>
         q_result = (IF cwdebug THEN "assert_failed" ELSE "General")
    /\ ~QueriedNode.store => q_result = get_optimal_layout(QueriedNode, q_call.separate)

C26_Witness ==
  /\ q_call.fn = "get_final_layout"
  /\ QueriedKnown
  /\ QueriedNode.sink /\ QueriedNode.store /\ ~QueriedNode.present
  /\ QueriedNode.kind = "color"
  /\ q_result = "assert_failed"

\* C27: get_initial_layout returns Undefined for an unknown attachment and
\* the optimal layout of the node for a known node that is not a source; on
\* a source node it throws an alert whenever the attachment declares a final
\* layout other than Undefined that differs from the initial_layout of its
\* ImageKind, and otherwise returns that initial_layout.
C27_SourceInitialLayout ==
  q_call.fn = "get_initial_layout" =>
    /\ ~QueriedKnown => q_result = "Undefined"
    /\ (QueriedKnown /\ ~QueriedNode.source) =>
         q_result = get_optimal_layout(QueriedNode, q_call.separate)
    /\ (QueriedKnown /\ QueriedNode.source) =>
         /\ (q_result = "alert") <=>
              (/\ QueriedNode.final_layout # "Undefined"
               /\ QueriedNode.final_layout # QueriedNode.initial_layout)
         /\ q_result # "alert" => q_result = QueriedNode.initial_layout

C27_Witness ==
  /\ q_call.fn = "get_initial_layout"
  /\ QueriedKnown
  /\ QueriedNode.source
  /\ QueriedNode.initial_layout = "ColorAttachmentOptimal"
  /\ QueriedNode.final_layout = "PresentSrcKHR"
  /\ q_result = "alert"

\* ------------------------------------------------------------------------
\* C28: when render pass a stores x and x is in the don't-care list of the
\* next pass b, preceding_render_pass_stores of b for x consumes the removal:
\* afterwards x is not in the don't-care list of b, the nodes of b are what
\* they were (no node for x was created, no load flag was set) and the other
\* entries of the list are unchanged.
C28_RemovalConsumed ==
  ~alert =>
    \A a, b \in Passes : \A x \in Attachments :
      (/\ a # b
       /\ FindAttachment(StoredBy(m_known_attachments[a]), x, 1) # 0
       /\ FindAttachment(m_remove_or_dontcare_attachments[b], x, 1) # 0) =>
        LET rp == RenderPassOf(b)
            res == preceding_render_pass_stores(rp, x)
            Other(y) == y # x IN
        /\ ~res.alert
        /\ res.consumed
        /\ FindAttachment(res.rp.removed, x, 1) = 0
        /\ res.rp.known = rp.known
        /\ res.rp.next_index = rp.next_index
        /\ SelectSeq(res.rp.removed, Other) = SelectSeq(rp.removed, Other)

\* C29: do_load_dont_cares never throws, leaves the don't-care list empty,
\* and every attachment that was in the list is afterwards a known attachment
\* of the pass whose node has none of the load, clear and store flags.
C29_DontCaresBecomeKnown ==
  [][\A p \in Passes :
       DoLoadDontCares(p) =>
         /\ ~alert'
         /\ m_remove_or_dontcare_attachments'[p] = <<>>
         /\ \A x \in Attachments :
              FindAttachment(m_remove_or_dontcare_attachments[p], x, 1) # 0 =>
                LET i == FindNode(m_known_attachments'[p], x, 1) IN
                /\ i # 0
                /\ ~m_known_attachments'[p][i].load
                /\ ~m_known_attachments'[p][i].clear
                /\ ~m_known_attachments'[p][i].store]_vars

\* ------------------------------------------------------------------------
\* No render pass occurs twice in the calls of the visitor.
VisitedOnce(visits) ==
  \A i, j \in 1..Len(visits) : i # j => visits[i][1] # visits[j][1]

\* C30: a call of for_all_render_passes_until terminates (it makes at most
\* one call of the function per followed edge, plus one) and calls the
\* visitor at most once per render pass, for every graph on GraphPasses and
\* each of the three search types; and a traversal with another id than the
\* one before visits the same render passes again.
C30_VisitedAtMostOnce ==
  /\ [](t_last.id # 0 => (~t_last.diverged /\ VisitedOnce(t_last.visits)))
  /\ [][\A traversal_id \in TraversalIds :
          (t_last.fresh /\ traversal_id # t_last.id /\ Traverse(traversal_id)) =>
            (t_last'.fresh /\ t_last'.visits = t_last.visits)]_vars

\* A traversal with id 2 of a diamond: 1 -> 2 -> 4 and 1 -> 3 -> 4.
C30_Witness ==
  /\ t_call.search_type = "Outgoing"
  /\ ~t_call.skip_lambda
  /\ t_call.stop = 0
  /\ t_vertices[1].out = {2, 3}
  /\ t_vertices[2].out = {4}
  /\ t_vertices[3].out = {4}
  /\ t_last.id = 2
  /\ t_last.fresh
  /\ \A p \in GraphPasses : m_traversal_id[p] = 2
  /\ Len(t_last.visits) = 4

\* ------------------------------------------------------------------------
\* Claims about the visitor of for_all_render_passes_until.

\* The render passes that the traversal goes on to from render pass p.
Successors(p) ==
  CASE t_call.search_type = "Subsequent" ->
         (IF t_vertices[p].sub = 0 THEN {} ELSE {t_vertices[p].sub})
    [] t_call.search_type = "Outgoing" -> t_vertices[p].out
    [] t_call.search_type = "Incoming" -> t_vertices[p].inc

\* The traversal descends from a render pass unless the visitor returned true
\* for it; on the start node (render pass 1) the visitor is not called when
\* skip_lambda is set.
Descends(p) == p # t_call.stop \/ (p = 1 /\ t_call.skip_lambda)

\* The render passes that can be reached from the render passes of set
\* without going through a render pass from which the traversal does not descend.
RECURSIVE ReachedFrom(_)
ReachedFrom(set) ==
  LET next == set \cup UNION {Successors(p) : p \in {q \in set : Descends(q)}} IN
  IF next = set THEN set ELSE ReachedFrom(next)

\* The render passes on which the last traversal called the visitor.
Visited == {t_last.visits[i][1] : i \in 1..Len(t_last.visits)}

\* C31: when the visitor returns true for a render pass the traversal does
\* not descend from it: the visitor is called exactly on the render passes
\* that can be reached from the start node without going through a render
\* pass for which it returned true (so a successor of such a render pass is
\* only visited through another branch, and the siblings on other branches
\* are visited), and no visit has such a render pass in its path.
C31_NoDescentAfterTrue ==
  (t_last.id # 0 /\ t_last.fresh) =>
    /\ Visited = ReachedFrom({1}) \ (IF t_call.skip_lambda THEN {1} ELSE {})
    /\ \A i \in 1..Len(t_last.visits) :
         /\ t_last.visits[i][3] = (t_last.visits[i][1] = t_call.stop)
         /\ \A k \in 1..Len(t_last.visits[i][2]) : t_last.visits[i][2][k] # t_call.stop

\* Render pass 2, where the visitor returned true, has a successor that was
\* not visited, and its sibling 3 was visited after it.
C31_Witness ==
  /\ t_last.id # 0
  /\ t_last.fresh
  /\ t_call.search_type = "Outgoing"
  /\ ~t_call.skip_lambda
  /\ t_call.stop = 2
  /\ t_vertices[1].out = {2, 3}
  /\ t_vertices[2].out = {4}
  /\ 4 \notin Visited
  /\ Len(t_last.visits) = 3
  /\ t_last.visits[2] = <<2, <<1>>, TRUE>>
  /\ t_last.visits[3] = <<3, <<1>>, FALSE>>

\* seq is a chain of render passes: every one is a successor of the one before.
IsChain(seq) == \A k \in 1..(Len(seq) - 1) : seq[k + 1] \in Successors(seq[k])

\* The visitor was called on render pass p and returned false before visit i.
VisitedFalseBefore(p, i) ==
  \E j \in 1..(i - 1) : t_last.visits[j][1] = p /\ ~t_last.visits[j][3]

\* C39: the path that a call of the visitor receives, followed by the visited
\* render pass, is a chain that begins at the start node (render pass 1; with
\* skip_lambda, where the visitor is not run on the start node, at a successor
\* of it), the path holds only render passes on which the visitor was run
\* before and returned false, and when the top-level call has returned the
\* path vector is empty as it was on entry.
C39_PathIsChainAndRestored ==
  t_last.id # 0 =>
    /\ t_last.path = <<>>
    /\ \A i \in 1..Len(t_last.visits) :
         LET path == t_last.visits[i][2]
             chain == (IF t_call.skip_lambda THEN <<1>> ELSE <<>>) \o path \o
                      <<t_last.visits[i][1]>> IN
         /\ chain[1] = 1
         /\ IsChain(chain)
         /\ \A k \in 1..Len(path) : VisitedFalseBefore(path[k], i)
         /\ \A k, l \in 1..Len(path) : k # l => path[k] # path[l]

\* The visitor was called with a path of two render passes, it aborted a
\* branch, and a render pass was visited after that branch.
C39_Witness ==
  /\ t_last.id # 0
  /\ t_last.fresh
  /\ ~t_call.skip_lambda
  /\ t_last.path = <<>>
  /\ \E i \in 1..Len(t_last.visits) :
       /\ t_last.visits[i][3]
       /\ Len(t_last.visits[i][2]) = 2
       /\ i < Len(t_last.visits)

\* ------------------------------------------------------------------------
\* Claims about the descriptor branch of CombinedImageSamplerUpdater.

\* C32: processing a DescriptorUpdateInfo never dereferences end() of the
\* descriptor container, and it leaves every entry with a different
\* FactoryCharacteristicId or a different target (descriptor set and binding)
\* than the update as it is.
C32_OnlySameIdAndTargetExtended ==
  /\ [](~end_dereferenced)
  /\ [][\A id \in Ids, f \in Fills, t \in Targets, g \in BOOLEAN,
           x \in Textures \cup {LoadingTexture}, w \in Windows :
          DescriptorUpdate(id, f, t, g, x, w) =>
            \A i \in 1..Len(m_key_to_descriptor) :
              (m_key_to_descriptor[i].id # id \/ m_key_to_descriptor[i].target # t) =>
                \E j \in 1..Len(m_key_to_descriptor') :
                  m_key_to_descriptor'[j] = m_key_to_descriptor[i]]_vars

\* The textures stored for id under a key that overlaps the subrange of an
\* entry of id with target t that holds fill index f in container seq.
TexturesFor(seq, id, f, t) ==
  {m_key_to_texture[k].tex : k \in {k \in 1..Len(m_key_to_texture) :
     \E j \in 1..Len(seq) :
       /\ seq[j].id = id /\ seq[j].target = t /\ seq[j].b <= f /\ f < seq[j].e
       /\ KeyEq(m_key_to_texture[k], seq[j])}}

\* C33: right after a DescriptorUpdateInfo was inserted or merged its
\* descriptor is updated with the texture stored for an overlapping key of
\* the same id if there is one, and else with the loading texture.
C33_UpdatedWithTextureOrLoading ==
  [][\A id \in Ids, f \in Fills, t \in Targets, g \in BOOLEAN,
        x \in Textures \cup {LoadingTexture}, w \in Windows :
       DescriptorUpdate(id, f, t, g, x, w) =>
         LET textures == TexturesFor(m_key_to_descriptor', id, f, t) IN
         IF textures # {} THEN bound'[t] \in textures ELSE bound'[t] = LoadingTexture]_vars

\* The descriptor set/binding t was sent for fill index f of id and for no
\* other fill index or id.
OnlyDescriptorOf(t, id, f) ==
  \A id2 \in Ids, f2 \in Fills : delivered[id2][f2] = t => (id2 = id /\ f2 = f)

\* C36: when a descriptor and a texture were registered for overlapping key
\* ranges of the same id, in either order, the texture of the last
\* descriptor-set update applied to the descriptor is that texture.
C36_OrderIndependentBinding ==
  \A id \in Ids, f \in Fills :
    LET t == delivered[id][f]
        x == painted[id][f] IN
    (t # 0 /\ x # 0 /\ OnlyDescriptorOf(t, id, f)) => bound[t] = x

C34_NoWindowAfterLastClosed ==
  /\ [][\A window_task \in Windows :
          ApplicationAdd(window_task) =>
            IF a_adds > 0 /\ m_window_list = <<>>
              THEN a_alert' /\ m_window_list' = <<>>
              ELSE ~a_alert' /\ m_window_list' = Append(m_window_list, window_task)]_vars
  /\ [][\A window_task \in Windows :
          ApplicationRemove(window_task) =>
            /\ \A i \in 1..Len(m_window_list') : m_window_list'[i] # window_task
            /\ LET Other(w) == w # window_task IN
               m_window_list' = SelectSeq(m_window_list, Other)]_vars

\* A window was added twice and removed, and the add after that was refused.
C34_Witness ==
  /\ a_alert
  /\ m_window_list = <<>>
  /\ a_adds = 2
  /\ a_ops = 4

\* ------------------------------------------------------------------------
\* Claims about pipeline::FlatCreateInfo.

\* C35: get_pipeline_color_blend_attachment_states can be called once per
\* pipeline on the same FlatCreateInfo without a failure of its assertion
\* that attachmentCount is 0 and pAttachments is null.
C35_GetterRepeatable ==
  k_result # "assert_failed"

\* ------------------------------------------------------------------------
\* Claims about memory::Image.

\* The living objects that hold handle h.
Holders(h) == {i \in ImageIds : images[i].alive /\ images[i].m_vh_image = h}

\* C38: every image handle that was created is either held by exactly one
\* living Image and was never passed to destroy_image, or is held by none and
\* was passed to destroy_image exactly once (so exactly once when all
\* objects are gone); an Image that was moved from, by construction or by
\* assignment, self-assignment included, holds a null handle, and the
\* destruction of an Image with a null handle calls destroy_image for nothing.
C38_DestroyedExactlyOnce ==
  /\ [](\A h \in ImageHandles :
          IF h < next_image_handle
            THEN Cardinality(Holders(h)) + destroy_image_calls[h] = 1
            ELSE Holders(h) = {} /\ destroy_image_calls[h] = 0)
  /\ [][\A this \in ImageIds, rhs \in ImageIds :
          (ImageMoveConstruct(this, rhs) \/ ImageMoveAssign(this, rhs)) =>
            images'[rhs].m_vh_image = VK_NULL_HANDLE]_vars
  /\ [][\A this \in ImageIds :
          (ImageDestruct(this) /\ images[this].m_vh_image = VK_NULL_HANDLE) =>
            UNCHANGED destroy_image_calls]_vars

\* Both images were created, one was move-assigned to the other (which
\* destroyed the image of the target) and the moved-from object is gone.
C38_Witness ==
  /\ next_image_handle = 3
  /\ destroy_image_calls[1] + destroy_image_calls[2] = 1
  /\ \E i \in ImageIds :
       /\ images[i].alive /\ images[i].m_vh_image # VK_NULL_HANDLE
       /\ \A j \in ImageIds \ {i} : ~images[j].alive

====
